---- MODULE Spec2Model ----
(***************************************************************************)
(* A model of pylib/vlbi/mk4.py: the root-code codec (root2int, int2root), *)
(* the LZRW3-A decoder (lzrw3a_decompress), the record stream reader       *)
(* (raw_records, records) with the record layout registry (dtype_record),  *)
(* and the file rewriter (recode, recode_auto).                            *)
(*                                                                         *)
(* Each component has its own specification over the same variables:       *)
(*   SpecRoot    the codec calls                                           *)
(*   SpecLz      one lzrw3a_decompress call, one item per step             *)
(*   SpecRead    one raw_records / records call, one record per step       *)
(*   SpecRecode  one recode call on a small file system                    *)
(*   SpecAuto    one recode_auto call, one directory corrected per step    *)
(*   SpecLayout  one record handed to its layout procedure in both modes   *)
(* Python strings and bytes are sequences (1-based here, 0-based there) of *)
(* one-character strings and of integers 0..255.  A call's outcome is a    *)
(* record [ok |-> TRUE, val |-> v] or [ok |-> FALSE, err |-> exception].   *)
(***************************************************************************)
EXTENDS Integers, Sequences, FiniteSets, TLC

VARIABLES
    \* ---- root-code codec
    rootPc,      \* "call", "encoded", "done"
    rootFn,      \* which function the call is: "int2root" or "root2int"
    i,           \* int2root's argument i
    legacy,      \* int2root's argument legacy
    code,        \* root2int's argument code
    encoded,     \* outcome of int2root(i, legacy)
    decoded,     \* outcome of root2int(code)
    \* ---- lzrw3a_decompress
    lzPc,        \* "call", "loop" (inside the while loop), "done"
    input,       \* the block passed as input
    inputType,   \* its Python type: "bytes" or "bytearray"
    lzRes,       \* outcome of the call
    i_input,     \* index of the next input byte (0-based, as in the code)
    out,         \* output buffer
    i_out,       \* output index
    hash,        \* hash table; an index that is absent holds None
    control,     \* control word with its sentinel bit
    cycle,       \* cycle slot
    literals,    \* pending literal count
    group,       \* items left in the current pass of the inner for loop
    order,       \* what the last item did to out and to hash, in the order of
                 \* the code's statements, each with len(out) at that point
    \* ---- raw_records / records
    rdPc,        \* "call", "reading" (in raw_records' loop), "finish", "done"
    rdCall,      \* the function called: "raw_records" or "records"
    source,      \* the byte source
    pos,         \* its stream position
    idArg,       \* the argument id: None, an int, or an iterable of ints
    one,         \* records' argument one: "None", "True" or "False"
    required,    \* records' argument required
    yielded,     \* what raw_records has yielded so far
    result,      \* records' result dict while it is filled
    rdRes,       \* outcome of the call
    \* ---- recode
    rcPc,        \* "call", "done"
    path,        \* recode's argument path
    new_root,    \* recode's argument new_root (a str)
    files,       \* the file system: a function from the paths of the files
                 \* that exist to their contents
    before,      \* the file system when recode was called
    fault,       \* the operation the environment makes fail: "none", "copy"
                 \* (shutil.copyfile, part way), "open", "remove" (os.remove(path))
    created,     \* recode has created (or truncated) the file at new_path
    rcRes,       \* outcome of the call
    \* ---- recode_auto
    auPc,        \* "call", "fix" (in the correction loop), "done"
    dirs,        \* recode_auto's argument dirs
    tree,        \* the file system: a function from the paths of the files
                 \* that exist to their contents; a directory is there when a
                 \* file is below it
    tree0,       \* the file system when recode_auto was called
    roots,       \* the dict roots: root file name -> set of directories
    pending,     \* the keys of roots the outer loop has not come to yet
    file,        \* the key the outer loop is at
    todo,        \* the directories the inner loop has not come to yet
    auRes,       \* outcome of the call
    \* ---- a layout procedure dtype_record_NNN called on its own
    stream,      \* the byte source f
    start,       \* the stream position at the calls: where the record starts
    skipEnd,     \* how the call with skip=True ended
    decodeEnd    \* how the call with skip=False ended

rootVars == <<rootPc, rootFn, i, legacy, code, encoded, decoded>>

lzVars == <<lzPc, input, inputType, lzRes, i_input, out, i_out, hash, control,
            cycle, literals, group, order>>

rdVars == <<rdPc, rdCall, source, pos, idArg, one, required, yielded, result, rdRes>>

rcVars == <<rcPc, path, new_root, files, before, fault, created, rcRes>>

auVars == <<auPc, dirs, tree, tree0, roots, pending, file, todo, auRes>>

lyVars == <<stream, start, skipEnd, decodeEnd>>

vars == <<rootVars, lzVars, rdVars, rcVars, auVars, lyVars>>

None == "None"

Ok(v) == [ok |-> TRUE, val |-> v]

Raise(e) == [ok |-> FALSE, err |-> e]

\* The value that stands for "no outcome yet".
Pending == [ok |-> FALSE, err |-> "pending"]

Min(a, b) == IF a < b THEN a ELSE b

Max(a, b) == IF a < b THEN b ELSE a

Range(s) == {s[k] : k \in DOMAIN s}

(***************************************************************************)
(* A component that takes no part in a specification stays in its idle     *)
(* state, and the other components' steps leave its variables alone.       *)
(***************************************************************************)
RootIdle ==
    /\ rootPc = "idle" /\ rootFn = "none" /\ i = 0 /\ legacy = FALSE
    /\ code = <<>> /\ encoded = Pending /\ decoded = Pending

LzIdle ==
    /\ lzPc = "idle" /\ input = <<>> /\ inputType = "bytes" /\ lzRes = Pending
    /\ i_input = 0 /\ out = <<>> /\ i_out = 0 /\ hash = <<>> /\ control = 1
    /\ cycle = 0 /\ literals = 0 /\ group = 0 /\ order = <<>>

RdIdle ==
    /\ rdPc = "idle" /\ rdCall = "none" /\ source = <<>> /\ pos = 0
    /\ idArg = [kind |-> "None", v |-> {}] /\ one = "None" /\ required = FALSE
    /\ yielded = <<>> /\ result = <<>> /\ rdRes = Pending

RcIdle ==
    /\ rcPc = "idle" /\ path = <<>> /\ new_root = <<>> /\ files = <<>>
    /\ before = <<>> /\ fault = "none" /\ created = FALSE /\ rcRes = Pending

AuIdle ==
    /\ auPc = "idle" /\ dirs = {} /\ tree = <<>> /\ tree0 = <<>> /\ roots = <<>>
    /\ pending = {} /\ file = <<>> /\ todo = <<>> /\ auRes = Pending

LyIdle == stream = <<>> /\ start = 0 /\ skipEnd = Pending /\ decodeEnd = Pending

RootFrame == UNCHANGED <<lzVars, rdVars, rcVars, auVars, lyVars>>

LzFrame == UNCHANGED <<rootVars, rdVars, rcVars, auVars, lyVars>>

RdFrame == UNCHANGED <<rootVars, lzVars, rcVars, auVars, lyVars>>

RcFrame == UNCHANGED <<rootVars, lzVars, rdVars, auVars, lyVars>>

AuFrame == UNCHANGED <<rootVars, lzVars, rdVars, rcVars, lyVars>>

LyFrame == UNCHANGED <<rootVars, lzVars, rdVars, rcVars, auVars>>

(***************************************************************************)
(* Characters.  Python compares and orders characters by code point; only  *)
(* the characters the program's alphabets and file names use are listed.   *)
(***************************************************************************)
Digits == <<"0", "1", "2", "3", "4", "5", "6", "7", "8", "9">>

Upper == <<"A", "B", "C", "D", "E", "F", "G", "H", "I", "J", "K", "L", "M",
           "N", "O", "P", "Q", "R", "S", "T", "U", "V", "W", "X", "Y", "Z">>

Lower == <<"a", "b", "c", "d", "e", "f", "g", "h", "i", "j", "k", "l", "m",
           "n", "o", "p", "q", "r", "s", "t", "u", "v", "w", "x", "y", "z">>

\* ord(c) for the characters used: ASCII code points.
Ord(c) ==
    CASE c \in Range(Digits) -> 47 + (CHOOSE k \in 1..10 : Digits[k] = c)
      [] c \in Range(Upper)  -> 64 + (CHOOSE k \in 1..26 : Upper[k] = c)
      [] c \in Range(Lower)  -> 96 + (CHOOSE k \in 1..26 : Lower[k] = c)
      [] c = "{" -> 123
      [] c = "|" -> 124
      [] c = "}" -> 125
      [] c = "~" -> 126
      [] c = "." -> 46
      [] c = "/" -> 47
      [] c = "$" -> 36
      [] c = "%" -> 37
      [] c = " " -> 32

(***************************************************************************)
(* mk4.py:47-48  _ROOT2INT and _ROOT2INT_OLD: the digit value of a         *)
(* character is its index in the alphabet string the dict is built from.   *)
(***************************************************************************)
ROOT2INT_chars == Digits \o Upper

ROOT2INT_OLD_chars == Lower \o <<"{", "|", "}", "~">>

\* A dict built by {c: i for i, c in enumerate(chars)}: c -> 0-based index.
DictOf(chars) == [c \in Range(chars) |-> (CHOOSE k \in DOMAIN chars : chars[k] = c) - 1]

ROOT2INT == DictOf(ROOT2INT_chars)

ROOT2INT_OLD == DictOf(ROOT2INT_OLD_chars)

(***************************************************************************)
(* mk4.py:602-612  root2int.  The alphabet is chosen by code[0] < 'a';     *)
(* the six characters code[0..5] are looked up in that alphabet's dict,    *)
(* code[5] first.  A string shorter than six raises IndexError, a          *)
(* character that is no key of the dict raises KeyError; characters after  *)
(* the sixth are never read.                                               *)
(***************************************************************************)
Root2IntSum(code_, dict, base) ==
    dict[code_[6]] + dict[code_[5]] * base + dict[code_[4]] * base^2
    + dict[code_[3]] * base^3 + dict[code_[2]] * base^4 + dict[code_[1]] * base^5

root2int(code_) ==
    IF Len(code_) = 0 THEN Raise("IndexError")
    ELSE LET dict == IF Ord(code_[1]) < Ord("a") THEN ROOT2INT ELSE ROOT2INT_OLD
             base == IF Ord(code_[1]) < Ord("a") THEN 36 ELSE 26
         IN  IF Len(code_) < 6 THEN Raise("IndexError")
             ELSE IF \E k \in 1..6 : code_[k] \notin DOMAIN dict THEN Raise("KeyError")
             ELSE Ok(Root2IntSum(code_, dict, base))

(***************************************************************************)
(* mk4.py:614-624  int2root.  chars[i // B ** j % B] for j in range(n)     *)
(* joins the digits from j = 0 upwards, so the first character of the      *)
(* result is the least significant digit.  In legacy mode the sixth        *)
(* character indexes a 30-character string with i // 26 ** 5, which raises *)
(* IndexError at 30 and above (i is never negative here).                  *)
(***************************************************************************)
DigitsOf(i_, chars, base, n) == [j \in 1..n |-> chars[((i_ \div base^(j - 1)) % base) + 1]]

int2root(i_, legacy_) ==
    IF legacy_
    THEN LET s == DigitsOf(i_, Lower, 26, 5)
             q == i_ \div 26^5
         IN  IF q >= Len(ROOT2INT_OLD_chars) THEN Raise("IndexError")
             ELSE Ok(Append(s, ROOT2INT_OLD_chars[q + 1]))
    ELSE Ok(DigitsOf(i_, ROOT2INT_chars, 36, 6))

(***************************************************************************)
(* Inputs of the codec calls.                                              *)
(***************************************************************************)
MaxRootInt == 40

MaxCodeLen == 7

\* Small integers, then the powers of the two bases and the ends of the ranges.
\* Every value is below 36^6 (the current alphabet's range) and, TLC's integers
\* being 32-bit, below 2^31: 35 * 36^5 + 36^4 is the largest current-alphabet
\* value listed, and no code of RootCodes decodes to more than 2^31 - 1.
RootInts ==
    (0..MaxRootInt)
    \cup {36^k : k \in 1..5} \cup {36^k + 1 : k \in 1..5} \cup {35 * 36^5 + 36^4}
    \cup {26^k : k \in 1..5} \cup {26^5 * 26 - 1, 26^5 * 30 - 1, 26^5 * 30, 26^5 * 31 - 1}

CodeChars == {"0", "Y", "a", "{"}

RECURSIVE SeqsOf(_, _)
SeqsOf(S, n) ==
    IF n = 0 THEN {<<>>}
    ELSE {Append(s, c) : s \in SeqsOf(S, n - 1), c \in S}

RootCodes == UNION {SeqsOf(CodeChars, n) : n \in 5..MaxCodeLen}

RootInit ==
    /\ LzIdle /\ RdIdle /\ RcIdle /\ AuIdle /\ LyIdle
    /\ rootPc = "call"
    /\ rootFn \in {"int2root", "root2int"}
    /\ IF rootFn = "int2root"
       THEN i \in RootInts /\ legacy \in BOOLEAN /\ code = <<>>
       ELSE i = 0 /\ legacy = FALSE /\ code \in RootCodes
    /\ encoded = Pending
    /\ decoded = Pending

\* A call int2root(i, legacy).
Int2Root ==
    /\ rootPc = "call" /\ rootFn = "int2root"
    /\ encoded' = int2root(i, legacy)
    /\ rootPc' = "encoded"
    /\ UNCHANGED <<rootFn, i, legacy, code, decoded>>
    /\ RootFrame

\* root2int applied to the code int2root returned.
Root2IntOfEncoded ==
    /\ rootPc = "encoded" /\ encoded.ok
    /\ code' = encoded.val
    /\ decoded' = root2int(encoded.val)
    /\ rootPc' = "done"
    /\ UNCHANGED <<rootFn, i, legacy, encoded>>
    /\ RootFrame

\* A call root2int(code) on a caller's string.
Root2Int ==
    /\ rootPc = "call" /\ rootFn = "root2int"
    /\ decoded' = root2int(code)
    /\ rootPc' = "done"
    /\ UNCHANGED <<rootFn, i, legacy, code, encoded>>
    /\ RootFrame

RootNext == Int2Root \/ Root2IntOfEncoded \/ Root2Int

SpecRoot == RootInit /\ [][RootNext]_vars

(***************************************************************************)
(* Claims about the codec.                                                 *)
(***************************************************************************)
\* C1: for every n in [0, 36^6), root2int(int2root(n, legacy=False)) = n.
C1_CurrentRoundTrip ==
    (rootFn = "int2root" /\ ~legacy /\ i \in RootInts /\ rootPc = "done")
        => (decoded.ok /\ decoded.val = i)

\* C2: for every n in [0, 26^5 * 31), int2root(n, legacy=True) returns a
\* six-character code without error, and root2int of that code is n.
C2_LegacyRoundTrip ==
    (rootFn = "int2root" /\ legacy /\ i \in 0..(26^5 * 31 - 1))
        => /\ rootPc = "encoded" => (encoded.ok /\ Len(encoded.val) = 6)
           /\ rootPc = "done" => (decoded.ok /\ decoded.val = i)

\* A well-formed root code: six characters of one alphabet; in a legacy code the
\* symbols after z may stand only in the most significant (first) position.
WellFormedCode(c) ==
    /\ Len(c) = 6
    /\ \/ \A k \in 1..6 : c[k] \in Range(ROOT2INT_chars)
       \/ /\ c[1] \in Range(ROOT2INT_OLD_chars)
          /\ \A k \in 2..6 : c[k] \in Range(Lower)

\* C3: root2int fails for every string that is not a well-formed root code; no
\* such string is decoded to an integer.
C3_DecodeValidates ==
    (rootFn = "root2int" /\ rootPc = "done" /\ ~WellFormedCode(code)) => ~decoded.ok

(***************************************************************************)
(* mk4.py:758-849  lzrw3a_decompress with its default parameters.          *)
(***************************************************************************)
depth == 3

mult == 40543

\* init = b'123456789012345678'
init == <<49, 50, 51, 52, 53, 54, 55, 56, 57, 48, 49, 50, 51, 52, 53, 54, 55, 56>>

\* mask = (1 << (12 - depth)) - 1 and dmask = (1 << depth) - 1
mask == 2^(12 - depth) - 1

dmask == 2^depth - 1

\* s[a:b] of Python, for 0 <= a: the elements at 0-based indices a .. b-1 that exist.
Slice(s, a, b) == SubSeq(s, a + 1, Min(b, Len(s)))

RECURSIVE BitXor(_, _)
BitXor(a, b) ==
    IF a = 0 THEN b
    ELSE IF b = 0 THEN a
    ELSE (((a % 2) + (b % 2)) % 2) + 2 * BitXor(a \div 2, b \div 2)

\* a hash that keeps one bit more than mask
HashOfWide(o, r) ==
    LET x == BitXor(BitXor(o[r + 1] * 256, o[r + 2] * 16), o[r + 3])
        m == 16 * (2 * mask + 2)
        v == ((mult % m) * (x % m)) % m
    IN  ((v \div 16) % (2 * mask + 2)) * 2^depth

(***************************************************************************)
(* mk4.py:816-818, 823-825, 840-842  the hash of the three output bytes at *)
(* 0-based offset r:                                                       *)
(*   (((mult * ((o[r] << 8) ^ (o[r+1] << 4) ^ o[r+2])) >> 4) & mask) << depth *)
(* (v >> 4) & mask depends only on v mod 16 * (mask + 1), so the product   *)
(* is taken modulo that power of two, which keeps it within 32 bits.       *)
(***************************************************************************)
HashOf(o, r) ==
    LET x == BitXor(BitXor(o[r + 1] * 256, o[r + 2] * 16), o[r + 3])
        m == 16 * (mask + 1)
        v == ((mult % m) * (x % m)) % m
    IN  ((v \div 16) % (mask + 1)) * 2^depth

\* hash[k] is not None
HashHit(h, k) == k \in DOMAIN h

\* hash[k] = v
HashPut(h, k, v) == [j \in (DOMAIN h) \cup {k} |-> IF j = k THEN v ELSE h[j]]

\* a copy made in one piece from the buffer as it is when the item starts
CopyBulk(o, i_grab, n) ==
    IF i_grab >= Len(o) THEN Raise("IndexError")
    ELSE Ok(o \o Slice(o, i_grab, i_grab + n))

\* mk4.py:810-811  for i in range(i_grab, i_grab + n): out.append(out[i])
\* one byte at a time, so a byte appended by this loop can be a later source.
\* The outcome is the new buffer, or IndexError when out[i] does not exist.
RECURSIVE CopyBytes(_, _, _)
CopyBytes(o, i_grab, n) ==
    IF n = 0 THEN Ok(o)
    ELSE IF i_grab >= Len(o) THEN Raise("IndexError")
    ELSE CopyBytes(Append(o, o[i_grab + 1]), i_grab + 1, n - 1)

\* mk4.py:773  the "stored" flag and mk4.py:774 what is returned for it
IsStoredFlag(flag) == flag = <<1, 0, 0, 0>>

\* mutant: the slice starts one byte early
StoredPayloadFrom3(input_) == Slice(input_, 3, Len(input_))

StoredPayload(input_) == Slice(input_, 4, Len(input_))

\* mutant: only the flag's first byte is compared
IsCompressedFlagFirstByte(flag) == Len(flag) > 0 /\ flag[1] = 0

\* mk4.py:776  the "compressed" flag
IsCompressedFlag(flag) == flag = <<0, 0, 0, 0>>

(***************************************************************************)
(* mk4.py:768-786  the call up to the while loop: the flag is input[:4];   *)
(* a flag that is no bytes object (a bytearray's slice is a bytearray) is  *)
(* rejected first.                                                         *)
(***************************************************************************)
LzCall ==
    /\ lzPc = "call"
    /\ LET flag == Slice(input, 0, 4)
       IN  IF inputType # "bytes"
           THEN lzPc' = "done" /\ lzRes' = Raise("TypeError")
           ELSE IF IsStoredFlag(flag)
           THEN lzPc' = "done" /\ lzRes' = Ok(StoredPayload(input))
           ELSE IF ~IsCompressedFlag(flag)
           THEN lzPc' = "done" /\ lzRes' = Raise("ValueError: invalid copy flag")
           ELSE lzPc' = "loop" /\ lzRes' = lzRes
    /\ i_input' = 4 /\ out' = <<>> /\ i_out' = 0 /\ hash' = <<>>
    /\ control' = 1 /\ cycle' = 0 /\ literals' = 0 /\ group' = 0 /\ order' = <<>>
    /\ UNCHANGED <<input, inputType>>
    /\ LzFrame

(***************************************************************************)
(* mk4.py:787-848  one item.  At the head of the while loop (group = 0)    *)
(* the control word is read if the sentinel was reached, and the inner for *)
(* loop starts a pass of 16 items, or of one near the end of the input.    *)
(* A read of input[k] with k >= len(input) raises IndexError.              *)
(***************************************************************************)
\* the state after the control word is read and the pass length is chosen
LzHead ==
    LET need == group = 0 /\ control = 1
        i1   == IF need THEN i_input + 2 ELSE i_input
    IN  [err     |-> need /\ i_input + 1 >= Len(input),
         control |-> IF need /\ i_input + 1 < Len(input)
                     THEN input[i_input + 1] + 256 * input[i_input + 2] + 65536
                     ELSE control,
         i_input |-> i1,
         group   |-> IF group = 0
                     THEN (IF i1 <= Len(input) - 32 THEN 16 ELSE 1)
                     ELSE group]

\* mk4.py:813-827  the pending literals are hashed into the table
FlushLiterals(h, o, cyc, lits, iout) ==
    IF lits = 0 THEN [hash |-> h, cycle |-> cyc]
    ELSE LET r  == iout - lits
             h1 == HashPut(h, HashOf(o, r) + cyc, r)
             c1 == (cyc + 1) % (dmask + 1)
         IN  IF lits = 2
             THEN [hash |-> HashPut(h1, HashOf(o, r + 1) + c1, r + 1),
                   cycle |-> (c1 + 1) % (dmask + 1)]
             ELSE [hash |-> h1, cycle |-> c1]

\* one statement of an item that changes out or hash: out.extend / out.append
\* ("append"), the hashing of the pending literals at mk4.py:813-827
\* ("flush"), the store of the copy's offset at mk4.py:829 ("insert"), the
\* hashing of the last three bytes at mk4.py:839-843 ("hash"); o is the
\* output buffer when the statement starts
Did(op, o) == [op |-> op, len |-> Len(o)]

\* mk4.py:795-831  a copy item, the control word and pass length being hd's
LzCopy(hd) ==
    LET byte_0 == input[hd.i_input + 1]
        n      == (byte_0 % 16) + 3
        i_hash == input[hd.i_input + 2] + (byte_0 \div 16) * 256
        copied == IF ~HashHit(hash, i_hash) THEN Ok(out \o Slice(init, 0, n))
                  ELSE CopyBytes(out, hash[i_hash], n)
    IN  IF hd.i_input + 1 >= Len(input) \/ ~copied.ok
        THEN /\ lzPc' = "done" /\ lzRes' = Raise("IndexError")
             /\ UNCHANGED <<i_input, out, i_out, hash, control, cycle, literals, group, order>>
        ELSE LET fl == FlushLiterals(hash, copied.val, cycle, literals, i_out)
             IN  /\ out' = copied.val
                 /\ hash' = HashPut(fl.hash, (i_hash - (i_hash % (dmask + 1))) + fl.cycle, i_out)
                 /\ cycle' = (fl.cycle + 1) % (dmask + 1)
                 /\ literals' = 0
                 /\ i_out' = i_out + n
                 /\ i_input' = hd.i_input + 2
                 /\ control' = hd.control \div 2
                 /\ group' = hd.group - 1
                 /\ order' = <<Did("append", out)>>
                              \o (IF literals > 0 THEN <<Did("flush", copied.val)>> ELSE <<>>)
                              \o <<Did("insert", copied.val)>>
                 /\ UNCHANGED <<lzPc, lzRes>>

\* mk4.py:833-846  a literal item
LzLiteral(hd) ==
    IF hd.i_input >= Len(input)
    THEN /\ lzPc' = "done" /\ lzRes' = Raise("IndexError")
         /\ UNCHANGED <<i_input, out, i_out, hash, control, cycle, literals, group, order>>
    ELSE LET o1 == Append(out, input[hd.i_input + 1])
         IN  /\ out' = o1
             /\ i_input' = hd.i_input + 1
             /\ i_out' = i_out + 1
             /\ IF literals = 2
                THEN /\ hash' = HashPut(hash, HashOf(o1, Len(o1) - 3) + cycle, i_out + 1 - 3)
                     /\ cycle' = (cycle + 1) % (dmask + 1)
                     /\ literals' = literals
                     /\ order' = <<Did("append", out), Did("hash", o1)>>
                ELSE /\ literals' = literals + 1
                     /\ order' = <<Did("append", out)>>
                     /\ UNCHANGED <<hash, cycle>>
             /\ control' = hd.control \div 2
             /\ group' = hd.group - 1
             /\ UNCHANGED <<lzPc, lzRes>>

LzItem ==
    /\ lzPc = "loop"
    /\ group > 0 \/ i_input < Len(input)
    /\ LET hd == LzHead
       IN  IF hd.err
           THEN /\ lzPc' = "done" /\ lzRes' = Raise("IndexError")
                /\ UNCHANGED <<i_input, out, i_out, hash, control, cycle, literals, group, order>>
           ELSE IF hd.control % 2 = 1 THEN LzCopy(hd) ELSE LzLiteral(hd)
    /\ UNCHANGED <<input, inputType>>
    /\ LzFrame

\* mk4.py:787, 849  the while loop ends and out is returned
LzReturn ==
    /\ lzPc = "loop"
    /\ group = 0 /\ ~(i_input < Len(input))
    /\ lzPc' = "done" /\ lzRes' = Ok(out)
    /\ UNCHANGED <<input, inputType, i_input, out, i_out, hash, control, cycle,
                   literals, group, order>>
    /\ LzFrame

(***************************************************************************)
(* Inputs of the decoder: every block made of a flag and a short body over *)
(* a few byte values (control words 00 00, 01 00, 02 00, 03 00 ...; copy   *)
(* words with lengths 3 to 6 and hash index 0 to 3), all-literal blocks    *)
(* long enough for a pass of 16 items, and blocks with the bytes FF and F8 *)
(* (copies of 18 bytes, the last bucket of the hash table).                *)
(***************************************************************************)
MaxBody == 6

MaxLong == 2

LzFlags == {<<0, 0, 0, 0>>, <<1, 0, 0, 0>>, <<2, 0, 0, 0>>, <<0, 0, 0, 1>>,
            <<1, 0, 0, 1>>, <<0, 1, 0, 0>>}

LzShort == {<<>>, <<0>>, <<1>>, <<0, 0>>, <<1, 0>>, <<0, 0, 0>>, <<1, 0, 0>>}

LzBytes == {0, 1, 2, 3}

LzBodies == UNION {SeqsOf(LzBytes, n) : n \in 0..MaxBody}

\* a control word of 16 literals, then 32 + k literal bytes
LzLong == {<<0, 0, 0, 0>> \o <<0, 0>> \o [j \in 1..(32 + k) |-> (j % 4)] : k \in 0..MaxLong}

\* a copy of 18 bytes with hash index FFF followed by three literals FF; the
\* same copy followed by a copy that hits its entry at FF8; four literals FF
LzWide == {<<0, 0, 0, 0, 1, 0, 255, 255, 255, 255, 255>>,
           <<0, 0, 0, 0, 3, 0, 255, 255, 255, 248>>,
           <<0, 0, 0, 0, 0, 0, 255, 255, 255, 255>>}

LzBlocks == {f \o b : f \in LzFlags, b \in LzBodies} \cup LzShort \cup LzLong \cup LzWide

LzInit ==
    /\ RootIdle /\ RdIdle /\ RcIdle /\ AuIdle /\ LyIdle
    /\ lzPc = "call"
    /\ input \in LzBlocks
    /\ inputType \in {"bytes", "bytearray"}
    /\ lzRes = Pending
    /\ i_input = 0 /\ out = <<>> /\ i_out = 0 /\ hash = <<>> /\ control = 1
    /\ cycle = 0 /\ literals = 0 /\ group = 0 /\ order = <<>>

LzNext == LzCall \/ LzItem \/ LzReturn

SpecLz == LzInit /\ [][LzNext]_vars

HasKnownFlag(b) ==
    /\ Len(b) >= 4
    /\ \/ \A k \in 1..4 : b[k] = 0
       \/ b[1] = 1 /\ \A k \in 2..4 : b[k] = 0

RunLen(c) == Len(c.pre) + c.fill

RECURSIVE FileLen(_)
FileLen(f) == IF f = <<>> THEN 0 ELSE RunLen(Head(f)) + FileLen(Tail(f))

RECURSIVE ByteAt(_, _)
ByteAt(f, p) ==
    LET c == Head(f)
    IN  IF p < RunLen(c)
        THEN (IF p < Len(c.pre) THEN c.pre[p + 1] ELSE 0)
        ELSE ByteAt(Tail(f), p - RunLen(c))

\* source.read(k) at position p: the bytes that exist, at most k
Read(f, p, k) ==
    [j \in 1..Min(k, Max(0, FileLen(f) - p)) |-> ByteAt(f, p + j - 1)]

\* source.readinto(buffer of k bytes) at position p: the number of bytes read
ReadInto(f, p, k) == Min(k, Max(0, FileLen(f) - p))

\* int(b) for a bytes object of ASCII digits; anything else raises ValueError
\* (no source of the model holds the sign, blank or underscore forms int() takes)
RECURSIVE DecVal(_)
DecVal(bs) ==
    IF bs = <<>> THEN 0
    ELSE DecVal(SubSeq(bs, 1, Len(bs) - 1)) * 10 + (bs[Len(bs)] - 48)

ParseInt(bs) ==
    IF bs = <<>> \/ \E k \in DOMAIN bs : bs[k] \notin 48..57
    THEN Raise("ValueError")
    ELSE Ok(DecVal(bs))

(***************************************************************************)
(* mk4.py:104-128, 331-585  the layout registry dtype_record.  A fixed     *)
(* layout is a numpy dtype; what the reader uses of it is its itemsize,    *)
(* the sum of its fields' widths, written here field by field.             *)
(***************************************************************************)
dtype_sky_coord == 2 + 2 + 4 + 2 + 2 + 4

dtype_cells == 4 * 33 + 4 * 33

dtype_chan == 2 + 2 + 1 * 2 + 1 * 2 + 8 * 2 + 8 * 2

dtype_date == 2 + 2 + 2 + 2 + 4

dtype_ffit_chan == 1 + 1 + 2 * 4

dtype_phasor_v0 == 4 + 4

dtype_phasor_v1 == 4 + 4 + 4

dtype_polars == 4 + 4

dtype_sbandf == 4 + 4

dtype_sbweights == 8 + 8

dtype_sidebands == 2 + 2

\* <<type id, version id, itemsize>> of every fixed layout
FixedLayouts == {
    <<0, 0, 3 + 2 + 3 + 16 + 40>>,
    <<0, 1, 3 + 2 + 3 + 16 + 40>>,
    <<100, 0, 3 + 2 + 3 + dtype_date + 2 + 34 + 2 + 6 + 4 + dtype_date + dtype_date + 4 + 4 + 2 + 2>>,
    <<130, 0, 3 + 2 + 3 + 2 + 6 + 4 + 4 + 4 + 4 + 4 + 4 + 4 + 4 + 4 + 4 + 4 + 4 + 4 + 4 + 4 + 4 + 4 + 4 + 4 + 4>>,
    <<131, 0, 3 + 2 + 3 + 2 + 6 + 4 + 4 + 4 * 64>>,
    <<141, 0, 3 + 2 + 3 + 2 + 6 + 4 + 4 + 4 + 4 + 4 + 4 + 4 + 4 + 4 + 4 + 4 + 4 + 4 + 4 + 4 + 4>>,
    <<142, 0, 3 + 2 + 3 + 2 + 6 + 4 + 4 + 4 + 4 + 4 + 4 + 4 + 4 + 4 + 4 + 4 + 4 + 4 + 4 + 4 + 4 + 4 + 4 + 4 + 4>>,
    <<143, 0, 3 + 2 + 3 + 2 + 6 + 4 + 4 + 4 + 4 + 4 + 4 + 4 + 4 + 4 + 4 + 4 + 4 + 4 + 4 + 4 + 4 + 4 + 4>>,
    <<144, 0, 3 + 2 + 3 + 2 + 6 + 4 + 4 + 4 + 4 + 4 + 4 + 4 + 4 + 4 + 4>>,
    <<150, 0, 3 + 2 + 3 + 2 + 6 + 4 + 4 + 2 + 6>>,
    <<200, 0, 3 + 2 + 3 + 2 * 10 + 4 + 32 + 32 + 8 + dtype_date + 4 + 4 + dtype_date + dtype_date + dtype_date>>,
    <<201, 0, 3 + 2 + 3 + 32 + dtype_sky_coord + 2 + 2 + dtype_date + 8 + 8 + 8 * 4 + 8 + 8>>,
    <<202, 0, 3 + 2 + 3 + 2 + 2 * 2 + 8 * 2 + 8 * 2 + 2 + 8 * 3 * 2 + 8 + 8 + 8 + 8 + 4 * 2 + 4 * 2 + 4 * 2 + 4 * 2 + 4 * 2 + 4 * 2>>,
    <<203, 0, 3 + 2 + 3 + dtype_chan * 32>>,
    <<203, 1, 3 + 2 + 3 + dtype_chan * 512>>,
    <<204, 0, 3 + 2 + 3 + 2 * 2 + 8 + 96 + dtype_date + 128>>,
    <<205, 0, 3 + 2 + 3 + dtype_date + 4 + 1 * 8 + 4 * 3 * 2 + 4 * 8 + dtype_date + dtype_date + 8 + dtype_ffit_chan * 16>>,
    <<205, 1, 3 + 2 + 3 + dtype_date + 4 + 1 * 8 + 4 * 3 * 2 + 4 * 8 + dtype_date + dtype_date + 8 + dtype_ffit_chan * 64>>,
    <<206, 0, 3 + 2 + 3 + dtype_date + 2 + 2 + dtype_sidebands * 16 + 4 + 4 + 4 + dtype_sidebands * 8 * 16 + 2 + 2 + 2 + 6>>,
    <<206, 1, 3 + 2 + 3 + dtype_date + 2 + 2 + dtype_sidebands * 16 + dtype_sbweights * 16 + 4 + 4 + 4 + dtype_sidebands * 8 * 16 + 2 + 2 + 2 + 6>>,
    <<206, 2, 3 + 2 + 3 + dtype_date + 2 + 2 + dtype_sidebands * 64 + dtype_sbweights * 64 + 4 + 4 + 4 + dtype_sidebands * 8 * 64 + 2 + 2 + 2 + 6>>,
    <<207, 0, 3 + 2 + 3 + dtype_sbandf * 2 * 16 + dtype_sbandf * 2 * 16 + dtype_sbandf * 2 * 16 + 4 * 2 + 4 * 2 * 16>>,
    <<207, 1, 3 + 2 + 3 + 4 + 4 + dtype_sbandf * 2 * 16 + dtype_sbandf * 2 * 16 + dtype_sbandf * 2 * 16 + dtype_sbandf * 2 * 16 + 4 * 2 + 4 * 2 * 16>>,
    <<207, 2, 3 + 2 + 3 + 4 + 4 + dtype_sbandf * 2 * 64 + dtype_sbandf * 2 * 64 + dtype_sbandf * 2 * 64 + dtype_sbandf * 2 * 64 + 4 * 2 + 4 * 2 * 64>>,
    <<208, 0, 3 + 2 + 3 + 1 + 1 + 1 * 6 + 8 + 8 + 8 + 8 + 8 + 8 + 8 + 8 + 8 + 4 + 4 + 4 + 4 + 4 + 4 + 4 + 4 + 4 + 4 + 4 + 4 + 4 + 4>>,
    <<208, 1, 3 + 2 + 3 + 1 + 1 + 1 * 6 + 8 + 8 + 8 + 8 + 8 + 8 + 8 + 8 + 8 + 4 + 4 + 4 + 4 + 4 + 4 + 4 + 4 + 4 + 4 + 4 + 4 + 4 + 4 + 4 + 4>>,
    <<210, 0, 3 + 2 + 3 + dtype_polars * 16>>,
    <<210, 1, 3 + 2 + 3 + dtype_polars * 64>>,
    <<300, 0, 3 + 2 + 3 + 1 + 2 + 32 + 1 + dtype_date + 4 + 2 + 2>>,
    <<301, 0, 3 + 2 + 3 + 2 + 32 + 6 + 8 * 6>>,
    <<302, 0, 3 + 2 + 3 + 2 + 32 + 6 + 8 * 6>>,
    <<303, 0, 3 + 2 + 3 + 2 + 32 + 6 + 8 * 6 + 8 * 6 + 8 * 6 + 8 * 6 + 8 * 6 + 8 * 6>>,
    <<304, 0, 3 + 2 + 3 + dtype_date + 4 + (4 + 4 + 4 + 4 + 4 + 4) * 64>>,
    <<306, 0, 3 + 2 + 3 + dtype_date + 4 + (32 + 4 + 4 + 4 + 4) * 16>>,
    <<307, 0, 3 + 2 + 3 + 4 + 4 + 8 + 8 + 8 + 4 + (4 * 8 + 4) * 16 + 4>>,
    <<308, 0, 3 + 2 + 3 + dtype_date + 4 + (8 + 4 + 4 + 4) * 32>>,
    <<309, 0, 3 + 2 + 3 + 4 + 4 + 8 + 8 + (8 + 8 + 4 * 16 * 2) * 16>>,
    <<309, 1, 3 + 2 + 3 + 4 + 4 + 8 + 8 + (8 + 8 + 4 * 64 * 2) * 64>>
}

\* (type id, version id) of the layouts that are procedures
DynamicLayouts == {<<101, 0>>, <<110, 0>>, <<120, 0>>, <<212, 0>>, <<212, 1>>,
                   <<220, 0>>, <<221, 0>>, <<222, 0>>, <<230, 0>>}

\* dtype_record[(id, ver)] raises KeyError for a pair that is no key
InRegistry(id, ver) ==
    \/ \E t \in FixedLayouts : t[1] = id /\ t[2] = ver
    \/ <<id, ver>> \in DynamicLayouts

IsFixed(id, ver) == \E t \in FixedLayouts : t[1] = id /\ t[2] = ver

ItemSize(id, ver) == (CHOOSE t \in FixedLayouts : t[1] = id /\ t[2] = ver)[3]

(***************************************************************************)
(* What one layout procedure or one pass of raw_records' loop comes to:    *)
(* a record decoded, a record skipped, the end of the stream, or an        *)
(* exception.  A decoded record is the extent of the source it was read    *)
(* from: [id, at, size].                                                   *)
(***************************************************************************)
Decoded(id, at, size) == [k |-> "rec", pos |-> at + size,
                          rec |-> [id |-> id, at |-> at, size |-> size]]

Skipped(p) == [k |-> "skip", pos |-> p]

Failed(e, a) == [k |-> "err", e |-> [ok |-> FALSE, err |-> e, arg |-> a]]

AtEnd == [k |-> "end"]

\* The tail every layout procedure shares: after the prefix of hlen bytes was
\* read at p, skip mode seeks l - hlen forward; decode mode seeks hlen back and
\* reads itemsize bytes with readinto, which raises EOFError if fewer come.
DynTail(f, p, hlen, l, itemsize, skip, id) ==
    IF skip THEN Skipped(p + hlen + (l - hlen))
    ELSE IF ReadInto(f, p, itemsize) # itemsize
         THEN Failed("EOFError", id)
         ELSE Decoded(id, p, itemsize)

\* d[6] * 256 + d[7]
Count16(d, k) == d[k + 1] * 256 + d[k + 2]

\* mk4.py:130-147
dtype_record_101(f, p, skip) ==
    LET d == Read(f, p, 8)
        n == Count16(d, 6)
        l == 40 + 4 * n
    IN  IF Len(d) < 8 THEN Failed("IndexError", 101)
        ELSE DynTail(f, p, 8, l, 3 + 2 + 1 + 2 + 2 + 2 + 8 * 2 + 2 + 2 + 2 * 2 + 4 + 4 * n,
                     skip, 101)

\* mk4.py:149-167
dtype_record_110(f, p, skip) ==
    LET d == Read(f, p, 8)
        n == Count16(d, 6)
        l == 44 + 264 * n
    IN  IF Len(d) < 8 THEN Failed("IndexError", 110)
        ELSE DynTail(f, p, 8, l,
                     3 + 2 + 1 + 2 + 2 + 2 + 2 + 6 + 4 + 4 + 4 + 4 + 4 + 4 + dtype_cells * n,
                     skip, 110)

\* mk4.py:169-231  the five sub-layouts of type 120, chosen by d[5]
dtype_record_120(f, p, skip) ==
    LET d == Read(f, p, 8)
        n == Count16(d, 6)
        t == d[6]
        base == 3 + 2 + 1 + 2 + 2 + 6 + 4 + 4 + 4 + 4 + 4 + 4
    IN  IF Len(d) < 8 THEN Failed("IndexError", 120)
        ELSE CASE t = 1 -> DynTail(f, p, 8, 40 + 16 * n, base + (4 + 4 + 4 + 4) * n, skip, 120)
               [] t = 2 -> DynTail(f, p, 8, 40 + 8 + 8 * n, base + 4 + 4 + (4 + 4) * n, skip, 120)
               [] t = 3 -> DynTail(f, p, 8, 40 + 8 + 4 * n, base + 4 + 4 + 4 * n, skip, 120)
               [] t = 4 -> DynTail(f, p, 8, 40 + 8 * n, base + (4 + 4) * n, skip, 120)
               [] t = 5 -> DynTail(f, p, 8, 40 + 8 * n, base + 8 * n, skip, 120)
               [] OTHER -> Failed("ValueError: Unknown record 120 type", t)

\* mk4.py:233-250  n is padded to even; the phasor is 12 bytes unless the
\* version digits d[3:5] are b'00'
dtype_record_212(f, p, skip) ==
    LET d == Read(f, p, 8)
        n0 == Count16(d, 6)
        n == n0 + (n0 % 2)
        phasor == IF <<d[4], d[5]>> # <<48, 48>> THEN dtype_phasor_v1 ELSE dtype_phasor_v0
        l == 16 + phasor * n
    IN  IF Len(d) < 8 THEN Failed("IndexError", 212)
        ELSE DynTail(f, p, 8, l, 3 + 2 + 1 + 2 + 2 + 2 + 2 + 2 + phasor * n, skip, 212)

\* mk4.py:252-266  width and height are declared '>2i', two 4-byte integers
\* each, so the dtype is 3 + 2 + 3 + 8 + 8 + n bytes while l is 12 + n
dtype_record_220(f, p, skip) ==
    LET d == Read(f, p, 12)
        n == Count16(d, 8) * Count16(d, 10)
        l == 12 + n
    IN  IF Len(d) < 12 THEN Failed("IndexError", 220)
        ELSE DynTail(f, p, 12, l, 3 + 2 + 3 + 4 * 2 + 4 * 2 + n, skip, 220)

\* d[k+3] + 256 * (d[k+2] + 256 * (d[k+1] + 256 * d[k]))
Count32(d, k) == d[k + 4] + 256 * (d[k + 3] + 256 * (d[k + 2] + 256 * d[k + 1]))

\* a payload length without the floor of 1
Len221NoFloor(d) ==
    LET n0 == Count32(d, 8)
    IN  IF <<d[7], d[8]>> # <<0, 0>> THEN n0 + (10 - ((n0 - 2) % 8)) ELSE n0

\* mk4.py:271-279  the payload length of a type-221 record
Len221(d) ==
    LET n0 == Count32(d, 8)
        n1 == IF <<d[7], d[8]>> # <<0, 0>> THEN n0 + (10 - ((n0 - 2) % 8)) ELSE n0
    IN  IF n1 < 1 THEN 1 ELSE n1

\* mk4.py:268-290
dtype_record_221(f, p, skip) ==
    LET d == Read(f, p, 12)
        n == Len221(d)
        l == 12 + n
    IN  IF Len(d) < 12 THEN Failed("IndexError", 221)
        ELSE DynTail(f, p, 12, l, 3 + 2 + 1 + 2 + 4 + n, skip, 221)

\* ((x + 7) & ~7) + 8 for x >= 0
Pad8(x) == ((x + 7) - ((x + 7) % 8)) + 8

\* mk4.py:292-311  frombuffer needs all 24 bytes; skip mode seeks n forward
\* from the end of the prefix
dtype_record_222(f, p, skip) ==
    LET d == Read(f, p, 24)
        setstring_length == Pad8(Count32(d, 16))
        cf_length == Pad8(Count32(d, 20))
        n == setstring_length + cf_length + 8
    IN  IF Len(d) < 24 THEN Failed("ValueError", 222)
        ELSE DynTail(f, p, 24, 24 + n,
                     3 + 2 + 1 + 2 + 4 + 4 + 4 + 4 + setstring_length + cf_length + 8,
                     skip, 222)

\* mk4.py:313-329  f.seek(l - 8 if skip else -8) has no whence argument: the
\* position is absolute; a negative one raises ValueError
dtype_record_230(f, p, skip) ==
    LET d == Read(f, p, 8)
        n == Count16(d, 6)
        l == 24 + 16 * n
    IN  IF Len(d) < 8 THEN Failed("IndexError", 230)
        ELSE IF skip THEN Skipped(l - 8)
        ELSE Failed("ValueError: negative seek value", 230)

\* a call dtype(source) or dtype(source, skip=True) of a procedure layout
DynCall(id, f, p, skip) ==
    CASE id = 101 -> dtype_record_101(f, p, skip)
      [] id = 110 -> dtype_record_110(f, p, skip)
      [] id = 120 -> dtype_record_120(f, p, skip)
      [] id = 212 -> dtype_record_212(f, p, skip)
      [] id = 220 -> dtype_record_220(f, p, skip)
      [] id = 221 -> dtype_record_221(f, p, skip)
      [] id = 222 -> dtype_record_222(f, p, skip)
      [] id = 230 -> dtype_record_230(f, p, skip)

(***************************************************************************)
(* mk4.py:866-895  raw_records.  ids is None or a set; "not ids" holds for *)
(* both None and the empty set.                                            *)
(***************************************************************************)
\* mk4.py:867-869 and 994-995  the set built from the argument id
IdsOf(arg) == arg.v

\* mk4.py:879  not ids or id in ids
Wanted(ids, id) == ids = {} \/ id \in ids

\* mk4.py:880-889  the record is read: a fixed layout with readinto
\* a reader that takes what readinto delivered without comparing its length
ReadWantedUnchecked(f, p1, id, ver) ==
    LET p == Max(0, p1 - 5)
    IN  IF IsFixed(id, ver)
        THEN Decoded(id, p, ReadInto(f, p, ItemSize(id, ver)))
        ELSE DynCall(id, f, p, FALSE)

ReadWanted(f, p1, id, ver) ==
    LET p == Max(0, p1 - 5)
    IN  IF IsFixed(id, ver)
        THEN IF ReadInto(f, p, ItemSize(id, ver)) # ItemSize(id, ver)
             THEN Failed("EOFError", id)
             ELSE Decoded(id, p, ItemSize(id, ver))
        ELSE DynCall(id, f, p, FALSE)

\* mk4.py:890-895  the record is skipped: a fixed layout by one seek
SkipFiltered(f, p1, id, ver) ==
    IF IsFixed(id, ver)
    THEN Skipped(p1 + (ItemSize(id, ver) - 5))
    ELSE DynCall(id, f, Max(0, p1 - 5), TRUE)

\* a loop that looks the layout up for wanted records only and passes over
\* the header of any other record
RawStepLookupWanted(f, p, ids) ==
    LET d   == Read(f, p, 5)
        p1  == p + Len(d)
        id  == ParseInt(SubSeq(d, 1, Min(3, Len(d))))
        ver == ParseInt(SubSeq(d, 4, Len(d)))
    IN  IF d = <<>> THEN AtEnd
        ELSE IF ~id.ok THEN Failed("ValueError", d)
        ELSE IF ~ver.ok THEN Failed("ValueError", d)
        ELSE IF ~Wanted(ids, id.val) THEN
                 IF InRegistry(id.val, ver.val) THEN SkipFiltered(f, p1, id.val, ver.val)
                 ELSE Skipped(p1)
        ELSE IF ~InRegistry(id.val, ver.val) THEN Failed("KeyError", <<id.val, ver.val>>)
        ELSE ReadWanted(f, p1, id.val, ver.val)

\* mk4.py:871-895  one pass of the loop, the stream being at p
RawStep(f, p, ids) ==
    LET d   == Read(f, p, 5)
        p1  == p + Len(d)
        id  == ParseInt(SubSeq(d, 1, Min(3, Len(d))))
        ver == ParseInt(SubSeq(d, 4, Len(d)))
    IN  IF d = <<>> THEN AtEnd
        ELSE IF ~id.ok THEN Failed("ValueError", d)
        ELSE IF ~ver.ok THEN Failed("ValueError", d)
        ELSE IF ~InRegistry(id.val, ver.val) THEN Failed("KeyError", <<id.val, ver.val>>)
        ELSE IF Wanted(ids, id.val) THEN ReadWanted(f, p1, id.val, ver.val)
        ELSE SkipFiltered(f, p1, id.val, ver.val)

(***************************************************************************)
(* mk4.py:982-1018  records: the consumer of raw_records(source, ids, True)*)
(* The dict under construction maps a type id to the sequence of records   *)
(* collected for it (in "one" mode, the one record).                       *)
(***************************************************************************)
DictPut(dict, key, v) == [j \in (DOMAIN dict) \cup {key} |-> IF j = key THEN v ELSE dict[j]]

\* a one mode that keeps the first record of a type and reads on to the end
OneModeTakeNoBreak(dict, arg, rec) ==
    IF rec.id \in DOMAIN dict
    THEN [k |-> "next", result |-> dict]
    ELSE [k |-> "next", result |-> DictPut(dict, rec.id, <<rec>>)]

\* mk4.py:1002-1005  one mode: the first record of a type is kept; the loop is
\* left once len(result) == len(ids), which raises TypeError when ids is None
OneModeTake(dict, arg, rec) ==
    IF rec.id \in DOMAIN dict
    THEN [k |-> "next", result |-> dict]
    ELSE LET r == DictPut(dict, rec.id, <<rec>>)
         IN  IF arg.kind = "None" THEN [k |-> "err", result |-> r]
             ELSE IF Cardinality(DOMAIN r) = Cardinality(IdsOf(arg))
                  THEN [k |-> "break", result |-> r]
                  ELSE [k |-> "next", result |-> r]

\* mk4.py:1010  result.setdefault(i, []).append(r)
ListModeTake(dict, rec) ==
    DictPut(dict, rec.id, (IF rec.id \in DOMAIN dict THEN dict[rec.id] ELSE <<>>) \o <<rec>>)

\* the ids of a set in ascending order: sorted(missing)
RECURSIVE Sorted(_)
Sorted(S) ==
    IF S = {} THEN <<>>
    ELSE LET lo == CHOOSE x \in S : \A y \in S : x <= y
         IN  <<lo>> \o Sorted(S \ {lo})

\* an auto mode that takes the first record of every list, whatever its length
CollapseFirst(dict, one_) ==
    [j \in DOMAIN dict |->
        IF one_ = "False" THEN [list |-> TRUE, recs |-> dict[j]]
        ELSE [list |-> FALSE, rec |-> dict[j][1]]]

\* mk4.py:1012-1013  auto mode collapses a list of one record to the record;
\* a value of the returned dict is [list |-> TRUE, recs |-> the list] or
\* [list |-> FALSE, rec |-> the record]
Collapse(dict, one_) ==
    [j \in DOMAIN dict |->
        IF one_ = "True" THEN [list |-> FALSE, rec |-> dict[j][1]]
        ELSE IF one_ = "None" /\ ~(Len(dict[j]) > 1) THEN [list |-> FALSE, rec |-> dict[j][1]]
        ELSE [list |-> TRUE, recs |-> dict[j]]]

\* a validation that reports every requested id
MissingAll(arg, dict) == IdsOf(arg)

\* mk4.py:1015  ids - set(result)
Missing(arg, dict) == IdsOf(arg) \ DOMAIN dict

\* mk4.py:1016  the message's list: ', '.join(f'{i:d}' for i in sorted(missing)),
\* kept as the sequence of the numbers joined
MissingMsg(missing) == Sorted(missing)

\* mk4.py:1014-1018  validation and return
RecordsReturn(dict, arg, one_, required_) ==
    IF required_ /\ IdsOf(arg) # {} /\ Missing(arg, dict) # {}
    THEN [ok |-> FALSE, err |-> "ValueError: record not found",
          arg |-> MissingMsg(Missing(arg, dict))]
    ELSE IF arg.kind # "int" THEN Ok(Collapse(dict, one_))
    ELSE LET id == CHOOSE x \in arg.v : TRUE
         IN  IF id \in DOMAIN dict THEN Ok(Collapse(dict, one_)[id])
             ELSE [ok |-> FALSE, err |-> "KeyError", arg |-> id]

\* the reader is followed up to this many records yielded; a source that
\* sends the reader back yields without end
MaxYield == 8

(***************************************************************************)
(* One pass of raw_records' loop together with what its caller does with   *)
(* the record yielded: list(raw_records(...)) keeps it; records() files it *)
(* in its dict and, in one mode, may leave the loop.                       *)
(***************************************************************************)
ReadRecord ==
    /\ rdPc = "reading"
    /\ Len(yielded) < MaxYield
    /\ LET st == RawStep(source, pos, IdsOf(idArg))
       IN  CASE st.k = "end" ->
                  /\ IF rdCall = "raw_records"
                     THEN rdPc' = "done" /\ rdRes' = Ok(yielded)
                     ELSE rdPc' = "finish" /\ rdRes' = rdRes
                  /\ UNCHANGED <<pos, yielded, result>>
             [] st.k = "err" ->
                  /\ rdPc' = "done" /\ rdRes' = st.e
                  /\ UNCHANGED <<pos, yielded, result>>
             [] st.k = "skip" ->
                  /\ pos' = st.pos
                  /\ UNCHANGED <<rdPc, rdRes, yielded, result>>
             [] st.k = "rec" ->
                  /\ pos' = st.pos
                  /\ yielded' = Append(yielded, st.rec)
                  /\ IF rdCall = "raw_records"
                     THEN UNCHANGED <<rdPc, rdRes, result>>
                     ELSE IF one = "True"
                     THEN LET t == OneModeTake(result, idArg, st.rec)
                          IN  /\ result' = t.result
                              /\ CASE t.k = "err" ->
                                        rdPc' = "done"
                                        /\ rdRes' = [ok |-> FALSE, err |-> "TypeError", arg |-> "len(None)"]
                                   [] t.k = "break" -> rdPc' = "finish" /\ rdRes' = rdRes
                                   [] t.k = "next" -> UNCHANGED <<rdPc, rdRes>>
                     ELSE /\ result' = ListModeTake(result, st.rec)
                          /\ UNCHANGED <<rdPc, rdRes>>
    /\ UNCHANGED <<rdCall, source, idArg, one, required>>
    /\ RdFrame

\* mk4.py:1011-1018  records after its loop
RecordsFinish ==
    /\ rdPc = "finish"
    /\ rdPc' = "done"
    /\ rdRes' = RecordsReturn(result, idArg, one, required)
    /\ UNCHANGED <<rdCall, source, pos, idArg, one, required, yielded, result>>
    /\ RdFrame

(***************************************************************************)
(* Inputs of the reader.                                                   *)
(***************************************************************************)
MaxRecs == 3

MaxCut == 2

\* the five header bytes of a record: type id and version id as decimal text
Hdr(id, ver) == <<48 + (id \div 100), 48 + ((id \div 10) % 10), 48 + (id % 10),
                  48 + (ver \div 10), 48 + (ver % 10)>>

\* a record of a fixed layout, and one with a type-101 prefix and n blocks
FixedRec(id, ver) == [pre |-> Hdr(id, ver), fill |-> ItemSize(id, ver) - 5]

Rec101(n) == [pre |-> Hdr(101, 0) \o <<0, n \div 256, n % 256>>, fill |-> (40 + 4 * n) - 8]

\* a header no layout is registered for
Rec211 == [pre |-> Hdr(211, 0), fill |-> 3]

\* a type-200 record of a version no layout is registered for
Rec200v9 == [pre |-> Hdr(200, 9), fill |-> ItemSize(200, 0) - 5]

\* the largest count and length field of the records examined
MaxCount == 9

\* a 16-bit and a 32-bit big-endian field
Be16(x) == <<x \div 256, x % 256>>

Be32(x) == <<0, 0, x \div 256, x % 256>>

\* records of the procedure layouts with their length fields set; each is as
\* long as the procedure's l
Rec120(t, n) ==
    [pre |-> Hdr(120, 0) \o <<t>> \o Be16(n),
     fill |-> (CASE t = 1 -> 40 + 16 * n [] t = 2 -> 48 + 8 * n [] t = 3 -> 48 + 4 * n
                 [] OTHER -> 40 + 8 * n) - 8]

Rec212(ver, n) ==
    [pre |-> Hdr(212, ver) \o <<0>> \o Be16(n),
     fill |-> (16 + (IF ver = 0 THEN 8 ELSE 12) * (n + (n % 2))) - 8]

\* a type-220 record of l = 12 + n bytes, and of the 24 + n bytes of its dtype
Rec220(w, h, head) ==
    [pre |-> Hdr(220, 0) \o <<0, 0, 0>> \o Be16(w) \o Be16(h), fill |-> (head + w * h) - 12]

Rec221(padded, c) ==
    [pre |-> Hdr(221, 0) \o <<0>> \o padded \o Be32(c),
     fill |-> IF padded # <<0, 0>> THEN c + (10 - ((c - 2) % 8)) ELSE IF c < 1 THEN 1 ELSE c]

Rec222(sl, cl) ==
    [pre |-> Hdr(222, 0) \o [k \in 1..11 |-> 0] \o Be32(sl) \o Be32(cl),
     fill |-> Pad8(sl) + Pad8(cl) + 8]

Rec230(n) == [pre |-> Hdr(230, 0) \o <<0>> \o Be16(n), fill |-> (24 + 16 * n) - 8]

\* the source f without its last k bytes (k no more than the last run's 00 bytes)
CutLast(f, k) ==
    IF f = <<>> THEN f
    ELSE [f EXCEPT ![Len(f)] = [pre |-> @.pre, fill |-> @.fill - k]]

\* every fixed layout alone and after a type-200 record, whole and cut by one byte
FixedSources ==
    {CutLast(lead \o <<FixedRec(t[1], t[2])>>, k) :
        t \in FixedLayouts, lead \in {<<>>, <<FixedRec(200, 0)>>}, k \in {0, 1}}

RecKinds == {FixedRec(200, 0), FixedRec(201, 0), FixedRec(0, 0), Rec101(1)}

MixedSources ==
    {CutLast(f, k) : f \in UNION {SeqsOf(RecKinds, n) : n \in 0..MaxRecs}, k \in 0..MaxCut}
    \cup {<<FixedRec(200, 0), Rec211, FixedRec(201, 0)>>, <<Rec211>>}

\* records of the procedure layouts followed by a record of a fixed layout;
\* a type-230 record of 9 points after 160 bytes, whose l - 8 is 160
LayoutSources ==
    {<<Rec220(0, 0, 12), FixedRec(200, 0)>>, <<Rec220(0, 0, 24), FixedRec(200, 0)>>,
     <<Rec220(2, 2, 24), FixedRec(200, 0)>>,
     <<Rec221(<<0, 1>>, 3), FixedRec(200, 0)>>, <<Rec222(1, 1), FixedRec(200, 0)>>,
     <<Rec120(1, 1), FixedRec(201, 0)>>, <<Rec212(1, 1), FixedRec(200, 0)>>,
     <<Rec230(0)>>, <<FixedRec(200, 0), FixedRec(200, 0), Rec230(9)>>,
     <<FixedRec(200, 0), Rec200v9, FixedRec(201, 0)>>}

IdArgs == {[kind |-> "None", v |-> {}], [kind |-> "set", v |-> {}],
           [kind |-> "int", v |-> {200}], [kind |-> "int", v |-> {101}],
           [kind |-> "set", v |-> {200, 201}], [kind |-> "set", v |-> {0, 101, 201}]}

\* the wanted id of a fixed-layout source: no filter, the type itself, another type
IdArgsFor(f) ==
    {[kind |-> "None", v |-> {}], [kind |-> "set", v |-> {200}], [kind |-> "set", v |-> {201}]}
    \cup (IF f = <<>> THEN {}
          ELSE {[kind |-> "int", v |-> {ParseInt(SubSeq(f[Len(f)].pre, 1, 3)).val}]})

RdInit ==
    /\ RootIdle /\ LzIdle /\ RcIdle /\ AuIdle /\ LyIdle
    /\ rdPc = "reading"
    /\ \/ source \in MixedSources \cup LayoutSources /\ idArg \in IdArgs
       \/ source \in FixedSources /\ idArg \in IdArgsFor(source)
    /\ rdCall \in {"raw_records", "records"}
    /\ IF rdCall = "records"
       THEN one \in {"None", "True", "False"} /\ required \in BOOLEAN
       ELSE one = "None" /\ required = FALSE
    /\ pos = 0 /\ yielded = <<>> /\ result = <<>> /\ rdRes = Pending

RdNext == ReadRecord \/ RecordsFinish

SpecRead == RdInit /\ [][RdNext]_vars

(***************************************************************************)
(* Properties of the reader.  A source of the inputs is a sequence of runs *)
(* of which each starts with a record header, so what a stream holds can   *)
(* be read off the source itself, independently of the reader.             *)
(***************************************************************************)
RunId(r) == ParseInt(SubSeq(r.pre, 1, 3)).val

RunVer(r) == ParseInt(SubSeq(r.pre, 4, 5)).val

\* the type ids of the records a source holds, complete or not
TypesIn(f) == {RunId(f[k]) : k \in DOMAIN f}

\* the run is a complete record of a registered layout
WholeRun(r) ==
    \/ IsFixed(RunId(r), RunVer(r)) /\ r = FixedRec(RunId(r), RunVer(r))
    \/ r = Rec101(1)

\* every record before the last one is complete
WholeLead(f) == \A k \in 1..(Len(f) - 1) : WholeRun(f[k])

\* where the last record of the source starts
LastStart(f) == FileLen(SubSeq(f, 1, Len(f) - 1))

\* the last record is one of a fixed layout with its last byte missing
LastCutFixed(f) ==
    /\ f # <<>> /\ WholeLead(f)
    /\ IsFixed(RunId(f[Len(f)]), RunVer(f[Len(f)]))
    /\ f = CutLast([f EXCEPT ![Len(f)] = FixedRec(RunId(@), RunVer(@))], 1)

\* the last record declares more bytes than the source has left
LastCut(f) ==
    /\ f # <<>> /\ WholeLead(f)
    /\ \E k \in 1..(MaxCut + 1) :
          \E w \in {FixedRec(t[1], t[2]) : t \in FixedLayouts} \cup {Rec101(1)} :
              f = CutLast([f EXCEPT ![Len(f)] = w], k)

EOFErrorOf(id) == [ok |-> FALSE, err |-> "EOFError", arg |-> id]

\* C6: a pass of the reader that starts at a fixed-layout record whose last
\* byte is missing, with the record's type wanted (named by the filter, or no
\* filter), ends the call with EOFError naming that record's type id and
\* yields no record for it.
C6_TruncatedFixedFails ==
    [][(/\ ReadRecord
        /\ LastCutFixed(source)
        /\ pos = LastStart(source)
        /\ Wanted(IdsOf(idArg), RunId(source[Len(source)])))
       => (/\ rdPc' = "done"
           /\ rdRes' = EOFErrorOf(RunId(source[Len(source)]))
           /\ yielded' = yielded
           /\ result' = result)]_vars

\* without a filter a type-200 record was read and yielded, then the
\* truncated record of another type ended the call
C6_Witness ==
    /\ rdPc = "done" /\ LastCutFixed(source) /\ Len(source) = 2
    /\ pos = LastStart(source) /\ Len(yielded) = 1
    /\ idArg.kind = "None"
    /\ RunId(source[2]) # 200
    /\ rdRes = EOFErrorOf(RunId(source[2]))

\* C7: a call of raw_records whose last record is filtered out and declares
\* more bytes than the source has left ends with EOFError naming that
\* record's type id, never normally.
C7_SkippedTruncatedFails ==
    (/\ rdPc = "done" /\ rdCall = "raw_records"
     /\ LastCut(source)
     /\ ~Wanted(IdsOf(idArg), RunId(source[Len(source)]))
     /\ \A k \in 1..(Len(source) - 1) : ~Wanted(IdsOf(idArg), RunId(source[k])))
    => rdRes = EOFErrorOf(RunId(source[Len(source)]))

\* the requested ids no record of the source has
Absent(arg, f) == IdsOf(arg) \ TypesIn(f)

\* the source can be read to its end: complete records of registered layouts
WholeSource(f) == \A k \in DOMAIN f : WholeRun(f[k])

\* C8: records(source, ids, required=True) over a readable stream that lacks
\* one or more of the requested type ids ends with ValueError 'record not
\* found' listing exactly the requested ids the stream lacks, ascending.
C8_MissingListed ==
    (/\ rdPc = "done" /\ rdCall = "records" /\ required
     /\ WholeSource(source)
     /\ Absent(idArg, source) # {})
    => /\ ~rdRes.ok
       /\ rdRes.err = "ValueError: record not found"
       /\ Len(rdRes.arg) = Cardinality(Absent(idArg, source))
       /\ Range(rdRes.arg) = Absent(idArg, source)
       /\ \A j, k \in DOMAIN rdRes.arg : j < k => rdRes.arg[j] < rdRes.arg[k]

\* ids {200, 201} over a stream with a type-200 record and none of type 201
C8_Witness ==
    /\ rdPc = "done" /\ rdCall = "records" /\ required
    /\ idArg = [kind |-> "set", v |-> {200, 201}]
    /\ WholeSource(source) /\ 200 \in TypesIn(source) /\ 201 \notin TypesIn(source)
    /\ rdRes = [ok |-> FALSE, err |-> "ValueError: record not found", arg |-> <<201>>]

(***************************************************************************)
(* mk4.py:897-942  recode.  File names are strings without white space or  *)
(* line ends, so RE_PATH's directory prefix ends at the last '/' and '$'   *)
(* matches at the end of the name only.                                    *)
(***************************************************************************)
\* str.rpartition('.'): (head, sep, tail), ('', '', s) when s has no '.'
RPartition(s) ==
    LET ks == {k \in DOMAIN s : s[k] = "."}
    IN  IF ks = {} THEN [head |-> <<>>, sep |-> FALSE, tail |-> s]
        ELSE LET k == CHOOSE x \in ks : \A y \in ks : y <= x
             IN  [head |-> SubSeq(s, 1, k - 1), sep |-> TRUE,
                  tail |-> SubSeq(s, k + 1, Len(s))]

\* mk4.py:45-46  _RE_BCODE / _RE_SCODE .match: [0-9A-Z]{6}$|[a-z{|}][a-z]{5}$
MatchCode(c) ==
    /\ Len(c) = 6
    /\ \/ \A k \in 1..6 : c[k] \in Range(Digits) \cup Range(Upper)
       \/ /\ c[1] \in Range(Lower) \cup {"{", "|", "}"}
          /\ \A k \in 2..6 : c[k] \in Range(Lower)

\* mk4.py:57  the root code of RE_PATH: [A-Z0-9]{6}|[a-z{][a-z]{5}
MatchPathCode(c) ==
    /\ Len(c) = 6
    /\ \/ \A k \in 1..6 : c[k] \in Range(Digits) \cup Range(Upper)
       \/ /\ c[1] \in Range(Lower) \cup {"{"}
          /\ \A k \in 2..6 : c[k] \in Range(Lower)

\* [a-zA-Z0-9$%]
StationChars == Range(Lower) \cup Range(Upper) \cup Range(Digits) \cup {"$", "%"}

\* mk4.py:50  (?:^.*/|^): what follows the last '/' of the path
Basename(p) ==
    LET ks == {k \in DOMAIN p : p[k] = "/"}
    IN  IF ks = {} THEN p
        ELSE SubSeq(p, (CHOOSE x \in ks : \A y \in ks : y <= x) + 1, Len(p))

\* mk4.py:49-93  PATH(path).type, under the names of the class's docstring
PathType(p) ==
    LET r    == RPartition(Basename(p))
        stem == r.head
        n    == Len(stem)
    IN  IF ~r.sep \/ ~MatchPathCode(r.tail) THEN "unrecognized"
        ELSE IF n = 3 /\ stem[1] \in StationChars /\ stem[2] \in StationChars /\ stem[3] = "."
        THEN "visibilities"
        ELSE IF /\ n >= 5 /\ stem[1] \in StationChars /\ stem[2] \in StationChars
                /\ stem[3] = "." /\ stem[4] \in Range(Upper) /\ stem[5] = "."
                /\ \A k \in 6..n : stem[k] \in Range(Digits)
        THEN "fringe"
        ELSE IF n = 2 /\ stem[1] \in StationChars /\ stem[2] = "."
        THEN "station"
        ELSE IF /\ n = 3 /\ stem[1] \in {"l", "L"} /\ stem[2] \in {"o", "O"}
                /\ stem[3] \in {"g", "G"}
        THEN "log"
        ELSE IF n > 0 THEN "schedule"
        ELSE "unrecognized"

\* mk4.py:904-905  new_path
NewPath(p, sroot) ==
    LET r == RPartition(p)
    IN  (IF MatchCode(r.tail) THEN r.head ELSE p) \o <<".">> \o sroot

\* str.encode(): the bytes of a string
Encode(str) == [k \in DOMAIN str |-> Ord(str[k])]

\* mk4.py:1001-1010 with raw_records' loop run to its end: the dict of
\* records(path) before validation, or the exception the reading raised
RECURSIVE ReadAll(_, _, _)
ReadAll(f, p, dict) ==
    LET st == RawStep(f, p, {})
    IN  CASE st.k = "end"  -> Ok(dict)
          [] st.k = "err"  -> st.e
          [] st.k = "skip" -> ReadAll(f, st.pos, dict)
          [] st.k = "rec"  -> ReadAll(f, st.pos, ListModeTake(dict, st.rec))

\* mk4.py:982-1018  records(path): id None, one None, required True
records(fs, p) ==
    IF p \notin DOMAIN fs THEN Raise("FileNotFoundError")
    ELSE LET r == ReadAll(fs[p], 0, <<>>)
         IN  IF r.ok THEN RecordsReturn(r.val, [kind |-> "None", v |-> {}], "None", TRUE)
             ELSE r

\* a file system with the file at p holding c, and without the file at p
WithFile(fs, p, c) == [q \in (DOMAIN fs) \cup {p} |-> IF q = p THEN c ELSE fs[q]]

Remove(fs, p) == [q \in (DOMAIN fs) \ {p} |-> fs[q]]

\* the first n bytes of a content, as one run
Prefix(f, n) == <<[pre |-> Read(f, 0, n), fill |-> 0]>>

MaxPartial == 2

\* what shutil.copyfile interrupted part way has written to the destination
PartialCopies(f) == {Prefix(f, n) : n \in 0..Min(FileLen(f) - 1, MaxPartial)}

\* an end of a recode call: the file system it leaves, whether the file at
\* new_path was created, and the outcome
End(fs, made, res) == [files |-> fs, created |-> made, res |-> res]

\* mk4.py:914-942  the other files: new_path is opened for writing, which
\* creates it or empties it; the loop variable of "for rec in records(path)"
\* takes the keys of the dict, which are ints, so that rec['record_id']
\* raises TypeError in the first pass and lines 921-936 are not reached
RecodeRecords(fs, p, new_path, flt) ==
    IF flt = "open"
    THEN {End(fs, FALSE, Raise("OSError"))}
    ELSE LET opened == WithFile(fs, new_path, <<>>)
             recs   == records(opened, p)
         IN  IF ~recs.ok
             THEN {End(Remove(opened, new_path), TRUE, recs)}
             ELSE IF DOMAIN recs.val # {}
             THEN {End(Remove(opened, new_path), TRUE, Raise("TypeError"))}
             ELSE IF flt = "remove"
             THEN {End(opened, TRUE, Raise("OSError"))}
             ELSE {End(Remove(opened, p), TRUE, Ok(None))}

\* a recode that treats schedule and log files as record files
RecodeCopyAsRecords(fs, p, new_path, flt) == RecodeRecords(fs, p, new_path, flt)

\* mk4.py:909-912  schedule and log files: shutil.copyfile(path, new_path),
\* which opens path, then creates new_path and copies; os.remove(path)
RecodeCopy(fs, p, new_path, flt) ==
    IF p \notin DOMAIN fs
    THEN {End(fs, FALSE, Raise("FileNotFoundError"))}
    ELSE IF new_path = p
    THEN {End(fs, FALSE, Raise("SameFileError"))}
    ELSE IF flt = "copy" /\ FileLen(fs[p]) > 0
    THEN {End(WithFile(fs, new_path, c), TRUE, Raise("OSError")) : c \in PartialCopies(fs[p])}
    ELSE IF flt = "remove"
    THEN {End(WithFile(fs, new_path, fs[p]), TRUE, Raise("OSError"))}
    ELSE {End(Remove(WithFile(fs, new_path, fs[p]), p), TRUE, Ok(None))}

\* mk4.py:897-942  recode(path, new_root) on the file system fs: its ends
recode(fs, p, root, flt) ==
    IF ~MatchCode(root)
    THEN {End(fs, FALSE, [ok |-> FALSE, err |-> "ValueError", arg |-> root])}
    ELSE IF PathType(p) \in {"schedule", "log"}
    THEN RecodeCopy(fs, p, NewPath(p, root), flt)
    ELSE RecodeRecords(fs, p, NewPath(p, root), flt)

\* mk4.py:897-942
Recode ==
    /\ rcPc = "call"
    /\ rcPc' = "done"
    /\ \E e \in recode(files, path, new_root, fault) :
          files' = e.files /\ created' = e.created /\ rcRes' = e.res
    /\ UNCHANGED <<path, new_root, before, fault>>
    /\ RcFrame

(***************************************************************************)
(* The calls examined: a file of each type of name, with and without a     *)
(* file already at the destination, under each fault.                      *)
(***************************************************************************)
OldCode == <<"0", "0", "0", "0", "A", "A">>

\* a type-000 record whose name ends in the root code c
Rec000(c) ==
    [pre |-> Hdr(0, 0) \o [k \in 1..19 |-> 0] \o Encode(<<"x", ".">> \o c),
     fill |-> 64 - (24 + 2 + Len(c))]

\* a type-110 record of no blocks whose root_code field is c
Rec110(c) ==
    [pre |-> Hdr(110, 0) \o [k \in 1..9 |-> 0] \o Encode(c),
     fill |-> 44 - (14 + Len(c))]

\* a header record and a record with a root_code field
TwoRecords(c) == <<Rec000(c), Rec110(c)>>

\* the text of a schedule or log file
Text == <<[pre |-> Encode(<<"$", "E", "X", "P">>), fill |-> 0]>>

Contents == {<<>>, TwoRecords(OldCode), <<FixedRec(200, 0)>>,
             CutLast(<<FixedRec(200, 0)>>, 1), Text}

Paths == {<<"A", "B", ".", ".">> \o OldCode,
          <<"A", "B", ".", "X", ".", "1", ".">> \o OldCode,
          <<"A", ".", ".">> \o OldCode,
          <<"l", "o", "g", ".">> \o OldCode,
          <<"e", "x", "p", ".">> \o OldCode,
          <<"e", "x", "p", ".", "a", "b", "c">>,
          <<"A", "B", ".", ".", "a", "a", "a", "a", "a", "a">>}

NewRoots == {<<"0", "0", "0", "0", "A", "B">>, OldCode, <<"a", "a", "a", "a", "a", "b">>, <<"0", "0", "0", "0", "a">>}

Faults == {"none", "copy", "open", "remove"}

RcInit ==
    /\ RootIdle /\ LzIdle /\ RdIdle /\ AuIdle /\ LyIdle
    /\ rcPc = "call"
    /\ path \in Paths /\ new_root \in NewRoots /\ fault \in Faults
    /\ \E c \in Contents :
          \/ files = WithFile(<<>>, path, c)
          \/ files = WithFile(WithFile(<<>>, NewPath(path, new_root), <<FixedRec(201, 0)>>),
                              path, c)
    /\ before = files
    /\ created = FALSE /\ rcRes = Pending

RcNext == Recode

SpecRecode == RcInit /\ [][RcNext]_vars

\* C9: recode of a visibilities, fringe or station file that holds a header
\* record whose name ends in the old root code and a record with a root_code
\* field, no operation failing, returns normally and leaves at the new path
\* the same two records with both root codes replaced by the new code and
\* every other byte as it was.
C9_RecodeRewrites ==
    (/\ rcPc = "done" /\ fault = "none"
     /\ PathType(path) \in {"visibilities", "fringe", "station"}
     /\ MatchCode(new_root) /\ new_root # OldCode
     /\ DOMAIN before = {path}
     /\ before[path] = TwoRecords(OldCode))
    => /\ rcRes.ok
       /\ NewPath(path, new_root) \in DOMAIN files
       /\ files[NewPath(path, new_root)] = TwoRecords(new_root)

\* C10: when recode has raised after it created the file at the new path
\* (no file having been there before the call), no file is at the new path
\* and the original file is there with the content it had.
C10_NoPartialFile ==
    (/\ rcPc = "done" /\ ~rcRes.ok /\ created
     /\ DOMAIN before = {path})
    => /\ NewPath(path, new_root) \notin DOMAIN files
       /\ path \in DOMAIN files
       /\ files[path] = before[path]

\* what the rewritten content of a file is: of the examined contents only
\* the two records carry a root code
Rewritten(f, c) == IF f = TwoRecords(OldCode) THEN TwoRecords(c) ELSE f

\* C11: when recode has returned or raised (no file having been at the new
\* path before the call), either the new file exists with the complete
\* rewritten content and the original is gone, or no new file exists and the
\* original is there unchanged.
C11_AllOrNothing ==
    (/\ rcPc = "done"
     /\ DOMAIN before = {path}
     /\ NewPath(path, new_root) # path)
    => \/ /\ NewPath(path, new_root) \in DOMAIN files
          /\ files[NewPath(path, new_root)] = Rewritten(before[path], new_root)
          /\ path \notin DOMAIN files
       \/ /\ NewPath(path, new_root) \notin DOMAIN files
          /\ path \in DOMAIN files
          /\ files[path] = before[path]

\* exactly six characters from 0-9A-Z
CurrentCode(c) == Len(c) = 6 /\ \A k \in 1..6 : c[k] \in Range(Digits) \cup Range(Upper)

\* C12: for a new_root that is not six characters from 0-9A-Z recode raises
\* and no file has been created, modified or deleted.
C12_CurrentAlphabetOnly ==
    (rcPc = "done" /\ ~CurrentCode(new_root))
    => (~rcRes.ok /\ ~created /\ files = before)

\* C13: recode of a schedule or log file to another root code, no operation
\* failing, returns normally with a file at the new path whose bytes are the
\* original's, whatever they are, and no file at the original path.
C13_CopiedVerbatim ==
    (/\ rcPc = "done" /\ fault \in {"none", "open"}
     /\ PathType(path) \in {"schedule", "log"}
     /\ MatchCode(new_root)
     /\ NewPath(path, new_root) # path)
    => /\ rcRes.ok
       /\ NewPath(path, new_root) \in DOMAIN files
       /\ files[NewPath(path, new_root)] = before[path]
       /\ path \notin DOMAIN files

\* a log file of text, which is no record stream, was copied and removed
C13_Witness ==
    /\ rcPc = "done" /\ rcRes.ok
    /\ PathType(path) = "log" /\ before[path] = Text
    /\ path \notin DOMAIN files
    /\ files[NewPath(path, new_root)] = Text

(***************************************************************************)
(* mk4.py:944-980  recode_auto.  The first loop fills roots; the second    *)
(* goes over roots in the dict's order, which follows the order in which   *)
(* os.listdir returned the names and is not fixed by the code, and over    *)
(* sorted(dirs)[1:] of each key.  One step corrects one directory.         *)
(***************************************************************************)
StartsWith(str, pre) == Len(str) >= Len(pre) /\ SubSeq(str, 1, Len(pre)) = pre

\* str.endswith
EndsWith(str, suf) ==
    Len(str) >= Len(suf) /\ SubSeq(str, Len(str) - Len(suf) + 1, Len(str)) = suf

\* os.path.join(dir, name)
Join(dir, name) == dir \o <<"/">> \o name

\* the first component of a relative path
FirstPart(rel) ==
    LET ks == {k \in DOMAIN rel : rel[k] = "/"}
    IN  IF ks = {} THEN rel
        ELSE SubSeq(rel, 1, (CHOOSE x \in ks : \A y \in ks : x <= y) - 1)

\* os.listdir(dir): the names of the files and directories in dir
ListDir(fs, dir) ==
    {FirstPart(SubSeq(q, Len(dir) + 2, Len(q))) :
        q \in {q \in DOMAIN fs : StartsWith(q, Join(dir, <<>>))}}

\* os.path.isdir(path)
IsDir(fs, q) == \E x \in DOMAIN fs : StartsWith(x, Join(q, <<>>))

\* the order of str: code points, a proper prefix first
RECURSIVE StrLess(_, _)
StrLess(a, b) ==
    IF b = <<>> THEN FALSE
    ELSE IF a = <<>> THEN TRUE
    ELSE IF Head(a) = Head(b) THEN StrLess(Tail(a), Tail(b))
    ELSE Ord(Head(a)) < Ord(Head(b))

\* sorted(S) of a set of strings
RECURSIVE SortedStrs(_)
SortedStrs(S) ==
    IF S = {} THEN <<>>
    ELSE LET lo == CHOOSE x \in S : \A y \in S \ {x} : StrLess(x, y)
         IN  <<lo>> \o SortedStrs(S \ {lo})

\* mk4.py:950-951, 962-963  the names in a directory with PATH(name).type == 0
RootNames(fs, dir) == {n \in ListDir(fs, dir) : PathType(n) = "schedule"}

\* mk4.py:955-958  the subdirectories of the directories without a root file
SubDirs(fs, ds) ==
    {q \in UNION {{Join(d, n) : n \in ListDir(fs, d)} : d \in {d \in ds : RootNames(fs, d) = {}}} :
        IsDir(fs, q)}

\* the dict built from (name, directory) pairs by setdefault(name, set()).add(dir)
RootsDict(pairs) == [n \in {pr[1] : pr \in pairs} |-> {pr[2] : pr \in {x \in pairs : x[1] = n}}]

\* mk4.py:947-964  the dicts the first loop can build: every root file of a
\* directory that has one; else, of each subdirectory, the root file that
\* os.listdir returns first
Scans(fs, ds) ==
    LET names == UNION {RootNames(fs, d) : d \in ds}
        here  == {pr \in names \X ds : pr[1] \in RootNames(fs, pr[2])}
        subs  == {sd \in SubDirs(fs, ds) : RootNames(fs, sd) # {}}
        picks == {pk \in [subs -> UNION {RootNames(fs, sd) : sd \in subs}] :
                    \A sd \in subs : pk[sd] \in RootNames(fs, sd)}
    IN  {RootsDict(here \cup {<<pk[sd], sd>> : sd \in subs}) : pk \in picks}

\* mk4.py:969-974  the code the probing ends at, i having been tried
RECURSIVE Probe(_, _, _)
Probe(rts, stem, i_) ==
    LET c == int2root(i_ + 1, FALSE).val
    IN  IF (stem \o <<".">> \o c) \in DOMAIN rts THEN Probe(rts, stem, i_ + 1) ELSE c

\* mk4.py:976-978  recode of the names in turn, up to the first that raises
RECURSIVE RecodeAll(_, _, _, _)
RecodeAll(fs, dir, names, c) ==
    IF names = <<>> THEN {[files |-> fs, res |-> Ok(None)]}
    ELSE UNION {IF e.res.ok THEN RecodeAll(e.files, dir, Tail(names), c)
                ELSE {[files |-> e.files, res |-> e.res]} :
                    e \in recode(fs, Join(dir, Head(names)), c, "none")}

\* the names of sorted(os.listdir(dir)) that end with '.' + orig_code
RECURSIVE Keep(_, _)
Keep(names, suf) ==
    IF names = <<>> THEN <<>>
    ELSE (IF EndsWith(Head(names), suf) THEN <<Head(names)>> ELSE <<>>) \o Keep(Tail(names), suf)

\* mk4.py:968-978  one pass of the inner loop
Correct(fs, rts, f, dir) ==
    LET r         == RPartition(f)
        orig_code == r.tail
        c         == Probe(rts, r.head, root2int(orig_code).val)
    IN  RecodeAll(fs, dir, Keep(SortedStrs(ListDir(fs, dir)), <<".">> \o orig_code), c)

\* mk4.py:947-964
AutoScan ==
    /\ auPc = "call"
    /\ auPc' = "fix"
    /\ roots' \in Scans(tree, dirs)
    /\ pending' = DOMAIN roots'
    /\ UNCHANGED <<dirs, tree, tree0, file, todo, auRes>>
    /\ AuFrame

\* the keys of roots still to come that are in more than one directory
Colliding == {f \in pending : Cardinality(roots[f]) > 1}

\* mk4.py:966-978  the next pass of the inner loop, the outer loop moving on
\* to the next key in more than one directory when the inner loop is done
AutoFix ==
    /\ auPc = "fix"
    /\ \E f \in (IF todo # <<>> THEN {file} ELSE Colliding) :
          LET ds == IF todo # <<>> THEN todo ELSE Tail(SortedStrs(roots[f]))
          IN  /\ file' = f
              /\ pending' = pending \ {f}
              /\ \E e \in Correct(tree, roots, f, Head(ds)) :
                    /\ tree' = e.files
                    /\ IF e.res.ok
                       THEN todo' = Tail(ds) /\ UNCHANGED <<auPc, auRes>>
                       ELSE todo' = <<>> /\ auPc' = "done" /\ auRes' = e.res
    /\ UNCHANGED <<dirs, tree0, roots>>
    /\ AuFrame

\* mk4.py:966-967  the loops are done
AutoReturn ==
    /\ auPc = "fix" /\ todo = <<>> /\ Colliding = {}
    /\ auPc' = "done" /\ auRes' = Ok(None)
    /\ UNCHANGED <<dirs, tree, tree0, roots, pending, file, todo>>
    /\ AuFrame

(***************************************************************************)
(* The calls examined: MaxDirs directories, each with one of a few sets of *)
(* files.                                                                  *)
(***************************************************************************)
MaxDirs == 3

DirNames == {<<Lower[k]>> : k \in 1..MaxDirs}

Exp(c) == <<"e", "x", "p", ".">> \o c

NextCode == <<"B", "A", "0", "0", "0", "0">>

\* the files of a directory, by relative path
DirKinds ==
    {[n \in {Exp(OldCode)} |-> Text],
     [n \in {Exp(OldCode), <<"l", "o", "g", ".">> \o OldCode} |-> Text],
     [n \in {Exp(OldCode), <<"a", ".", ".">> \o OldCode} |-> IF n = Exp(OldCode) THEN Text ELSE <<FixedRec(200, 0)>>],
     [n \in {Exp(OldCode), <<"z", "z", ".", ".">> \o OldCode} |-> IF n = Exp(OldCode) THEN Text ELSE <<FixedRec(200, 0)>>],
     [n \in {Exp(NextCode)} |-> Text],
     [n \in {<<"s", "/">> \o Exp(OldCode), <<"s", "/">> \o <<"l", "o", "g", ".">> \o OldCode} |-> Text],
     [n \in {<<"o", "t", "h", "e", "r", ".">> \o OldCode} |-> Text]}

\* the file system in which directory d holds the files of kinds[d]
TreeOf(kinds) ==
    [q \in UNION {{Join(d, n) : n \in DOMAIN kinds[d]} : d \in DOMAIN kinds} |->
        LET d == CHOOSE d \in DOMAIN kinds : StartsWith(q, Join(d, <<>>))
        IN  kinds[d][SubSeq(q, Len(d) + 2, Len(q))]]

AuInit ==
    /\ RootIdle /\ LzIdle /\ RdIdle /\ RcIdle /\ LyIdle
    /\ auPc = "call"
    /\ dirs = DirNames
    /\ \E kinds \in [DirNames -> DirKinds] : tree = TreeOf(kinds)
    /\ tree0 = tree
    /\ roots = <<>> /\ pending = {} /\ file = <<>> /\ todo = <<>> /\ auRes = Pending

AuNext == AutoScan \/ AutoFix \/ AutoReturn

SpecAuto == AuInit /\ [][AuNext]_vars

\* the directories recode_auto looks for root files in
ScannedDirs(fs, ds) == ds \cup SubDirs(fs, ds)

\* C14: after recode_auto has returned, no root file name is in more than
\* one of the scanned directories.
C14_NoCollisionLeft ==
    (auPc = "done" /\ auRes.ok)
    => \A d1, d2 \in ScannedDirs(tree0, dirs) :
          d1 # d2 => RootNames(tree, d1) \cap RootNames(tree, d2) = {}

\* the names in directory d that end with the root code c
Carrying(fs, d, c) == {n \in ListDir(fs, d) : EndsWith(n, <<".">> \o c)}

\* of the files of d that carried the code c0, none was renamed, or all are
\* now under one new code
Consistent(d, c0) ==
    LET was == Carrying(tree0, d, c0)
    IN  \/ \A n \in was : Join(d, n) \in DOMAIN tree
        \/ \E c \in {RPartition(n).tail : n \in ListDir(tree, d)} :
              /\ c # c0
              /\ \A n \in was : /\ Join(d, n) \notin DOMAIN tree
                                /\ Join(d, RPartition(n).head \o <<".">> \o c) \in DOMAIN tree

\* C15: when recode_auto has returned or raised, in every scanned directory
\* the files that carried one root code were all renamed to the same new
\* code or none of them was renamed.
C15_SiblingsConsistent ==
    (auPc = "done")
    => \A d \in ScannedDirs(tree0, dirs) :
          \A c0 \in {RPartition(n).tail : n \in ListDir(tree0, d)} : Consistent(d, c0)

(***************************************************************************)
(* mk4.py:130-334  the layout procedures called on their own: the stream   *)
(* stands at the start of a record and dtype_record_NNN(f, skip) is called *)
(* once with skip=True and once, from the same position, with skip=False.  *)
(***************************************************************************)
\* the type id in the record header at the position
IdAt(f, p) == ParseInt(Read(f, p, 3)).val

LayoutSkip ==
    /\ stream # <<>> /\ skipEnd = Pending
    /\ skipEnd' = DynCall(IdAt(stream, start), stream, start, TRUE)
    /\ UNCHANGED <<stream, start, decodeEnd>>
    /\ LyFrame

LayoutDecode ==
    /\ stream # <<>> /\ decodeEnd = Pending
    /\ decodeEnd' = DynCall(IdAt(stream, start), stream, start, FALSE)
    /\ UNCHANGED <<stream, start, skipEnd>>
    /\ LyFrame

LayoutRecs ==
    {Rec101(n) : n \in 0..1} \cup {Rec110(OldCode)}
    \cup {Rec120(t, n) : t \in 1..5, n \in 0..1}
    \cup {Rec212(ver, n) : ver \in 0..1, n \in 0..2}
    \cup {Rec220(wh[1], wh[2], head) : wh \in {<<0, 0>>, <<1, 2>>, <<2, 2>>}, head \in {12, 24}}
    \cup {Rec221(padded, c) : padded \in {<<0, 0>>, <<0, 1>>, <<1, 0>>}, c \in 0..MaxCount}
    \cup {Rec222(sl, cl) : sl \in {0, 1, MaxCount}, cl \in {0, 1, MaxCount}}
    \cup {Rec230(n) : n \in 0..3}

LyInit ==
    /\ RootIdle /\ LzIdle /\ RdIdle /\ RcIdle /\ AuIdle
    /\ \E lead \in {<<>>, <<FixedRec(0, 0)>>}, rec \in LayoutRecs,
          trail \in {<<>>, <<FixedRec(200, 0)>>} :
          /\ stream = lead \o <<rec>> \o trail
          /\ start = FileLen(lead)
    /\ skipEnd = Pending /\ decodeEnd = Pending

LyNext == LayoutSkip \/ LayoutDecode

SpecLayout == LyInit /\ [][LyNext]_vars

\* the header fields of the type-221 record at the start: d[6:8] and the count
PaddedAt == SubSeq(Read(stream, start, 12), 7, 8)

CountAt == LET d == Read(stream, start, 12)
           IN  d[12] + 256 * (d[11] + 256 * (d[10] + 256 * d[9]))

\* the payload length the type-221 formula gives
Payload221 ==
    IF PaddedAt # <<0, 0>> THEN Max(1, CountAt + 10 - ((CountAt - 2) % 8))
    ELSE Max(1, CountAt)

\* C16: for a complete type-221 record with count c, the call with skip=True
\* leaves the stream 12 + n bytes after the record's start and the call with
\* skip=False reads a record of 12 + n bytes, where n is
\* max(1, c + 10 - ((c - 2) mod 8)) when d[6:8] is not 00 00 and max(1, c)
\* when it is.
C16_Length221 ==
    (stream # <<>> /\ IdAt(stream, start) = 221)
    => /\ skipEnd # Pending => skipEnd = Skipped(start + 12 + Payload221)
       /\ decodeEnd # Pending => decodeEnd = Decoded(221, start, 12 + Payload221)

\* a padded record of count 3, whose payload is 12 bytes, went through both calls
C16_Witness ==
    /\ stream # <<>> /\ IdAt(stream, start) = 221
    /\ PaddedAt # <<0, 0>> /\ CountAt = 3
    /\ skipEnd = Skipped(start + 24)
    /\ decodeEnd # Pending /\ decodeEnd.k = "rec" /\ decodeEnd.rec.size = 24

\* C17: for a record of a procedure layout, the call with skip=True leaves
\* the stream where the call with skip=False, made from the same position,
\* leaves it after reading the record.
C17_SkipEqualsDecode ==
    (stream # <<>> /\ skipEnd # Pending /\ decodeEnd # Pending)
    => /\ skipEnd.k = "skip" /\ decodeEnd.k = "rec"
       /\ skipEnd.pos = decodeEnd.pos

\* what raw_records(source) without a filter yields, from position p on
RECURSIVE YieldAll(_, _)
YieldAll(f, p) ==
    LET st == RawStep(f, p, {})
    IN  IF st.k = "rec" THEN <<st.rec>> \o YieldAll(f, st.pos)
        ELSE IF st.k = "skip" THEN YieldAll(f, st.pos)
        ELSE <<>>

\* the records of a sequence whose type id is in W, in the same order
RECURSIVE Restrict(_, _)
Restrict(recs, W) ==
    IF recs = <<>> THEN <<>>
    ELSE (IF Head(recs).id \in W THEN <<Head(recs)>> ELSE <<>>) \o Restrict(Tail(recs), W)

\* C18: when raw_records(source, W) with a non-empty W has ended, what it
\* yielded is what raw_records(source) yields, restricted to the records
\* whose type id is in W.
C18_FilterRestricts ==
    (rdPc = "done" /\ rdCall = "raw_records" /\ IdsOf(idArg) # {})
    => yielded = Restrict(YieldAll(source, 0), IdsOf(idArg))

\* C19: every pass of the reader's loop that does not end the reading
\* leaves the stream position greater than it was.
C19_PositionAdvances ==
    [][ReadRecord => (rdPc' # "reading" \/ pos' > pos)]_vars

\* the run of the source that starts at position p
RunAt(f, p) == CHOOSE k \in DOMAIN f : FileLen(SubSeq(f, 1, k - 1)) = p

\* the (type id, version id) pairs dtype_record has a layout for
KnownPairs == {<<t[1], t[2]>> : t \in FixedLayouts} \cup DynamicLayouts

\* position p is the start of a record whose pair has no layout
UnknownAt(f, p) ==
    /\ \E k \in DOMAIN f : FileLen(SubSeq(f, 1, k - 1)) = p
    /\ <<RunId(f[RunAt(f, p)]), RunVer(f[RunAt(f, p)])>> \notin KnownPairs

\* C20: a pass of the reader that starts at a record whose (type id,
\* version id) pair has no layout ends the call with KeyError naming the
\* pair, whether the filter names the type or not, and yields nothing.
C20_UnknownPairFails ==
    [][(ReadRecord /\ UnknownAt(source, pos))
       => (/\ rdPc' = "done"
           /\ rdRes' = [ok |-> FALSE, err |-> "KeyError",
                        arg |-> <<RunId(source[RunAt(source, pos)]),
                                  RunVer(source[RunAt(source, pos)])>>]
           /\ yielded' = yielded)]_vars

\* with a filter that does not name type 211, a type-200 record was
\* yielded, the type-211 header ended the call, and the type-201 record
\* after it was not reached
C20_Witness ==
    /\ rdPc = "done" /\ rdCall = "raw_records"
    /\ source = <<FixedRec(200, 0), Rec211, FixedRec(201, 0)>>
    /\ idArg = [kind |-> "set", v |-> {200, 201}]
    /\ Len(yielded) = 1 /\ yielded[1].id = 200
    /\ rdRes = [ok |-> FALSE, err |-> "KeyError", arg |-> <<211, 0>>]

(***************************************************************************)
(* Properties of records' modes.                                           *)
(***************************************************************************)
\* the first record of type t a source holds, read off the source's runs
FirstOf(f, t) ==
    LET k == CHOOSE j \in DOMAIN f :
                 RunId(f[j]) = t /\ \A m \in 1..(j - 1) : RunId(f[m]) # t
    IN  [id |-> t, at |-> FileLen(SubSeq(f, 1, k - 1)), size |-> RunLen(f[k])]

\* a call records(source, ids, one=True) with a non-empty ids
FirstMode == rdCall = "records" /\ one = "True" /\ IdsOf(idArg) # {}

\* the value records returned maps every requested id the source holds to
\* the first record of that id (for an int id, is that record)
FirstResult ==
    IF idArg.kind = "int"
    THEN rdRes.val = [list |-> FALSE,
                      rec |-> FirstOf(source, CHOOSE t \in IdsOf(idArg) : TRUE)]
    ELSE /\ DOMAIN rdRes.val = IdsOf(idArg) \cap TypesIn(source)
         /\ \A t \in DOMAIN rdRes.val :
                rdRes.val[t] = [list |-> FALSE, rec |-> FirstOf(source, t)]

\* C21: in a call records(source, ids, one=True) with a non-empty ids, once
\* the result holds a record of every requested id no further record is
\* read from the source (the stream position stays and nothing more is
\* yielded), and the value returned maps each requested id that occurs in
\* the source to its first occurrence in file order.
C21_FirstStopsEarly ==
    /\ [][(FirstMode /\ IdsOf(idArg) \subseteq DOMAIN result)
          => (pos' = pos /\ yielded' = yielded /\ result' = result)]_vars
    /\ []((FirstMode /\ rdPc = "done" /\ rdRes.ok) => FirstResult)

\* ids {200, 201} over records of types 200, 201, 0: the call returned with
\* the stream still at the start of the third record
C21_Witness ==
    /\ FirstMode /\ rdPc = "done" /\ rdRes.ok
    /\ idArg = [kind |-> "set", v |-> {200, 201}]
    /\ source = <<FixedRec(200, 0), FixedRec(201, 0), FixedRec(0, 0)>>
    /\ pos = LastStart(source)
    /\ DOMAIN rdRes.val = {200, 201}

\* C22: records(source, one=True) without an id filter, over a source of
\* complete records, returns a mapping from every type id the source holds
\* to the first record of that type.
C22_FirstUnfiltered ==
    (/\ rdPc = "done" /\ rdCall = "records" /\ one = "True"
     /\ idArg.kind = "None" /\ WholeSource(source))
    => /\ rdRes.ok
       /\ DOMAIN rdRes.val = TypesIn(source)
       /\ \A t \in DOMAIN rdRes.val :
              rdRes.val[t] = [list |-> FALSE, rec |-> FirstOf(source, t)]

\* the records of type t a source holds, in file order, read off its runs
RECURSIVE AllOf(_, _, _)
AllOf(f, t, k) ==
    IF k > Len(f) THEN <<>>
    ELSE (IF RunId(f[k]) = t
          THEN <<[id |-> t, at |-> FileLen(SubSeq(f, 1, k - 1)), size |-> RunLen(f[k])]>>
          ELSE <<>>) \o AllOf(f, t, k + 1)

\* what the result holds for type t in the mode one_
Grouped(f, t, one_) ==
    IF one_ = "None" /\ Len(AllOf(f, t, 1)) = 1
    THEN [list |-> FALSE, rec |-> AllOf(f, t, 1)[1]]
    ELSE [list |-> TRUE, recs |-> AllOf(f, t, 1)]

\* the type ids a call collects: those of the source the filter lets through
Collected(arg, f) == {t \in TypesIn(f) : Wanted(IdsOf(arg), t)}

\* C23: when records returns in auto mode (one=None), every type id that
\* occurred once maps to the bare record and every type id that occurred
\* k >= 2 times to the list of its k records in file order; with one=False
\* every type id maps to a list, also one of a single record.
C23_AutoCollapses ==
    (/\ rdPc = "done" /\ rdCall = "records" /\ one \in {"None", "False"} /\ rdRes.ok)
    => IF idArg.kind = "int"
       THEN rdRes.val = Grouped(source, CHOOSE t \in IdsOf(idArg) : TRUE, one)
       ELSE /\ DOMAIN rdRes.val = Collected(idArg, source)
            /\ \A t \in DOMAIN rdRes.val : rdRes.val[t] = Grouped(source, t, one)

\* auto mode over records of types 200, 201, 200: type 200 maps to a list of
\* two records and type 201 to a bare record
C23_Witness ==
    /\ rdPc = "done" /\ rdCall = "records" /\ one = "None" /\ rdRes.ok
    /\ idArg.kind = "None"
    /\ source = <<FixedRec(200, 0), FixedRec(201, 0), FixedRec(200, 0)>>
    /\ rdRes.val[200].list /\ Len(rdRes.val[200].recs) = 2
    /\ ~rdRes.val[201].list

(***************************************************************************)
(* Properties of the decoder's items.  What the next item is can be read   *)
(* off the input and the control word: the item is a copy when the control *)
(* word's low bit is set, and its copy word is the next two input bytes.   *)
(***************************************************************************)
\* the decoder is about to process an item
AtItem == lzPc = "loop" /\ (group > 0 \/ i_input < Len(input)) /\ ~LzHead.err

\* the item is a copy whose two-byte copy word the input holds
AtCopy == AtItem /\ LzHead.control % 2 = 1 /\ LzHead.i_input + 1 < Len(input)

\* the item is a literal whose byte the input holds
AtLiteral == AtItem /\ LzHead.control % 2 = 0 /\ LzHead.i_input < Len(input)

\* the copy word's length and hash index
CopyLen == (input[LzHead.i_input + 1] % 16) + 3

CopyIndex == input[LzHead.i_input + 2] + 256 * (input[LzHead.i_input + 1] \div 16)

\* C24: a copy item whose hash entry holds offset s appends n bytes to the
\* output of length L with out[L + k] = out[s + k] for every 0 <= k < n,
\* also when s + n > L; on a miss the n bytes appended are the first n bytes
\* of the seed string.  The output before the item is not changed.
C24_BackReference ==
    [][(LzItem /\ AtCopy)
       => LET L == Len(out)
              n == CopyLen
          IN  /\ Len(out') = L + n
              /\ SubSeq(out', 1, L) = out
              /\ IF HashHit(hash, CopyIndex)
                 THEN \A k \in 0..(n - 1) : out'[L + k + 1] = out'[hash[CopyIndex] + k + 1]
                 ELSE SubSeq(out', L + 1, L + n) = SubSeq(init, 1, n)]_vars

\* a copy of 3 bytes missed and stored offset 0; the next copy, of 4 bytes,
\* hit it with 3 bytes of output: its fourth byte is one it emitted itself
C24_Witness ==
    /\ lzPc = "loop" /\ input = <<0, 0, 0, 0, 3, 0, 0, 0, 1, 0>>
    /\ i_input = 10
    /\ out = <<49, 50, 51, 49, 50, 51, 49>>

\* C25: a literal item processed while the pending-literal count is 2
\* hashes the last three output bytes into the table at the cycle slot,
\* rotates the cycle slot and resets the pending count to 0; any other
\* literal item only increments the count.
C25_ThirdLiteralResets ==
    [][(LzItem /\ AtLiteral)
       => /\ out' = Append(out, input[LzHead.i_input + 1])
          /\ IF literals = 2
             THEN /\ hash' = HashPut(hash, HashOf(out', Len(out') - 3) + cycle, Len(out') - 3)
                  /\ cycle' = (cycle + 1) % (dmask + 1)
                  /\ literals' = 0
             ELSE /\ hash' = hash /\ cycle' = cycle
                  /\ literals' = literals + 1]_vars

\* C26: a copy item that finds 1 or 2 pending literals hashes them into the
\* table while the output is still as the item found it, then appends the
\* copy's bytes, and then stores the copy's start offset in the table.
C26_FlushBeforeAppend ==
    [][(LzItem /\ AtCopy /\ literals \in {1, 2})
       => order' = <<Did("flush", out), Did("append", out), Did("insert", out')>>]_vars

\* C27: for every block with the compressed flag, whatever its length and
\* content, lzrw3a_decompress ends by returning the output built so far.
C27_StopsAtInputEnd ==
    (lzPc = "done" /\ inputType = "bytes" /\ IsCompressedFlag(Slice(input, 0, 4)))
    => lzRes = Ok(out)

\* the number of entries of the hash table: hash = [None] * 4096
HashSize == 4096

\* C28: at every item boundary i_out is the length of the output, the
\* pending-literal count is in 0..2, the cycle slot is in 0..2^depth - 1,
\* every index of the hash table written or about to be read is in 0..4095,
\* and every entry of the table is an offset below the output's length.
C28_DecoderInvariant ==
    (lzPc = "loop")
    => /\ i_out = Len(out)
       /\ literals \in 0..2
       /\ cycle \in 0..(2^depth - 1)
       /\ DOMAIN hash \subseteq 0..(HashSize - 1)
       /\ AtCopy => CopyIndex \in 0..(HashSize - 1)
       /\ \A k \in DOMAIN hash : hash[k] \in 0..(Len(out) - 1)

\* a literal, a copy of 3 bytes that missed, hashed the pending literal at
\* offset 0 and stored its own offset 1 at index 1, then one more literal
C28_Witness ==
    /\ lzPc = "loop" /\ input = <<0, 0, 0, 0, 2, 0, 1, 0, 0, 3>>
    /\ i_input = 10 /\ literals = 1 /\ cycle = 2
    /\ out = <<1, 49, 50, 51, 3>>
    /\ Cardinality(DOMAIN hash) = 2
    /\ 1 \in DOMAIN hash /\ hash[1] = 1

(***************************************************************************)
(* What recode leaves of the files it finds.                               *)
(***************************************************************************)
\* C29: when recode, called on a file that is not empty with a new_root of
\* six characters from 0-9A-Z (the code the name already has included), has
\* returned or raised, the file's content is there complete, at the
\* original path as it was or at the new path (as it was, or rewritten).
C29_NoDataLoss ==
    (/\ rcPc = "done" /\ CurrentCode(new_root)
     /\ path \in DOMAIN before /\ FileLen(before[path]) > 0)
    => \/ path \in DOMAIN files /\ files[path] = before[path]
       \/ /\ NewPath(path, new_root) \in DOMAIN files
          /\ files[NewPath(path, new_root)]
                 \in {before[path], Rewritten(before[path], new_root)}

\* C30: when recode has returned or raised, every file that was there
\* before the call, other than the one at path, is there with the content
\* it had: a file already at the destination is neither emptied nor removed.
C30_OtherFilesKept ==
    (rcPc = "done")
    => \A q \in DOMAIN before :
           q # path => (q \in DOMAIN files /\ files[q] = before[q])

====
